---------------------------- MODULE Spec2Model ----------------------------
(***************************************************************************)
(* Color Clash server: room registry (roomManager with grace-period        *)
(* disconnects), rule engine (gameEngine.js) and the socket handlers with  *)
(* the per-room turn timer (socketHandlers.js).                            *)
(*                                                                         *)
(* The deck, the hand size and the room capacity are scaled down by the    *)
(* named bounds below so that wins, reshuffles and full rooms are reached  *)
(* by exhaustive search; card counts are stated relative to DeckSize and   *)
(* HAND_SIZE.                                                              *)
(***************************************************************************)
EXTENDS Integers, Sequences, FiniteSets, TLC

VARIABLES
    rooms,            \* Map<roomCode, room> in insertion order: Seq of room records
    closed,           \* sockets whose 'disconnect' event has been handled
    turnTimers,       \* Map roomCode -> handle: "none" | "live" | "dead" (handle fired)
    turnPending,      \* number of pending turn-timeout callbacks per room code
    disconnectTimers, \* keys <<code, playerId>> present in the disconnectTimers map
    gracePending,     \* number of pending grace callbacks per key
    reply,            \* the last event handled and, for an intent, what its callback was given
    rankings,         \* rankings of the last 'game:ended' emission
    budget            \* game mutations (plays, draws, penalties, timeouts) left to explore

vars == <<rooms, closed, turnTimers, turnPending, disconnectTimers, gracePending,
          reply, rankings, budget>>

---------------------------------------------------------------------------
(* Bounds of the model *)

\* highest number-card value of the scaled deck (the code builds 1..9)
MaxValue == 0
\* colors of the scaled deck, a prefix of COLORS (the code uses all four)
NumColors == 2
\* copies of 'wild' and of 'wild_draw_four' in the scaled deck (the code pushes 4)
NumWild == 1
\* cards dealt to each player (the code deals 7)
HAND_SIZE == 3
\* room capacity (the code's MAX_PLAYERS is 8)
MAX_PLAYERS == 3
\* seeds of the random stream that shuffle draws from
NumSeeds == 2
\* game mutations (plays, draws, penalties, timeouts) explored by SpecPlay
PlayMoves == 5
\* game mutations explored by SpecReject
RejectMoves == 3
\* disconnect events explored by SpecLobby
LobbyDisconnects == 1
\* game mutations explored by SpecSession
SessionMoves == 3
\* disconnect events explored by SpecSession
MaxDisconnects == 2
\* disconnect events explored by SpecReconnect
ReconnectDisconnects == 2
\* game mutations explored by SpecClock
ClockMoves == 5
\* disconnect events explored by SpecClock
ClockDisconnects == 1
\* draws and timeout firings explored by SpecDraw
DrawMoves == 7
\* disconnect events explored by SpecDraw
DrawDisconnects == 1

\* the hand size and the room capacity as the code has them
StandardHandSize == 7
StandardMaxPlayers == 8

---------------------------------------------------------------------------
(* gameEngine.js *)

COLORS == <<"red", "blue", "green", "yellow">>
SPECIAL_TYPES == <<"skip", "reverse", "draw_two">>
WILD_TYPES == {"wild", "wild_draw_four"}

\* value of a card that has no 'value' property
NoValue == -1

Card(c, t, v) == [color |-> c, type |-> t, value |-> v]

\* for (let i = 1; i <= maxValue; i++): two cards of each value
RECURSIVE NumberCards(_, _, _)
NumberCards(color, i, maxValue) ==
    IF i > maxValue THEN <<>>
    ELSE <<Card(color, "number", i), Card(color, "number", i)>>
         \o NumberCards(color, i + 1, maxValue)

RECURSIVE SpecialCards(_, _)
SpecialCards(color, k) ==
    IF k > Len(SPECIAL_TYPES) THEN <<>>
    ELSE <<Card(color, SPECIAL_TYPES[k], NoValue), Card(color, SPECIAL_TYPES[k], NoValue)>>
         \o SpecialCards(color, k + 1)

\* for (const color of COLORS): one 0, the numbers, the specials
RECURSIVE ColorCards(_, _, _)
ColorCards(k, numColors, maxValue) ==
    IF k > numColors THEN <<>>
    ELSE <<Card(COLORS[k], "number", 0)>>
         \o NumberCards(COLORS[k], 1, maxValue) \o SpecialCards(COLORS[k], 1)
         \o ColorCards(k + 1, numColors, maxValue)

\* for (let i = 0; i < numWild; i++): a wild and a wild_draw_four
RECURSIVE WildCards(_, _)
WildCards(i, numWild) ==
    IF i >= numWild THEN <<>>
    ELSE <<Card("wild", "wild", NoValue), Card("wild", "wild_draw_four", NoValue)>>
         \o WildCards(i + 1, numWild)

\* the deck createDeck builds from numColors colors, values 1..maxValue and numWild
\* copies of each wild
Deck(numColors, maxValue, numWild) ==
    ColorCards(1, numColors, maxValue) \o WildCards(0, numWild)

\* the deck as the code builds it: four colors, values 1..9, 4 copies of each wild
StandardDeck == Deck(Len(COLORS), 9, 4)

\* the deck of the games explored here
createDeck == Deck(NumColors, MaxValue, NumWild)

DeckSize == Len(createDeck)

\* Math.floor(Math.random() * (i + 1)) for the i-th step of a shuffle, drawn
\* from the random stream numbered seed
RandomIndex(seed, i) == (seed * (i + 3) + (i \div 2)) % (i + 1)

Swap(deck, a, b) == [deck EXCEPT ![a] = deck[b], ![b] = deck[a]]

\* Fisher-Yates, i from length-1 down to 1 (0-based i, j)
RECURSIVE ShuffleFrom(_, _, _)
ShuffleFrom(deck, seed, i) ==
    IF i <= 0 THEN deck
    ELSE ShuffleFrom(Swap(deck, i + 1, RandomIndex(seed, i) + 1), seed, i - 1)

shuffle(deck, seed) == ShuffleFrom(deck, seed, Len(deck) - 1)

Seeds == 0 .. (NumSeeds - 1)

\* the seeds that matter to a handler: no random number is drawn unless a draw of up
\* to 4 cards can find the draw pile empty
DrawSeeds(rs) ==
    IF \E i \in 1..Len(rs) : rs[i].phase = "game" /\ Len(rs[i].game.drawPile) < 4
    THEN Seeds ELSE {0}

Pop(s) == SubSeq(s, 1, Len(s) - 1)
Last(s) == s[Len(s)]

\* hands of the players listed in order: HAND_SIZE pops each
RECURSIVE DealHand(_, _, _)
DealHand(pile, hand, i) ==
    IF i >= HAND_SIZE THEN [pile |-> pile, hand |-> hand]
    ELSE DealHand(Pop(pile), Append(hand, Last(pile)), i + 1)

RECURSIVE DealPlayers(_, _, _)
DealPlayers(players, pile, k) ==
    IF k > Len(players) THEN [players |-> players, pile |-> pile]
    ELSE LET d == DealHand(pile, <<>>, 0)
         IN DealPlayers([players EXCEPT ![k].hand = d.hand], d.pile, k + 1)

\* the do/while that flips the starting discard: a wild goes back to the bottom
RECURSIVE FlipStart(_)
FlipStart(pile) ==
    IF Last(pile).type \in WILD_TYPES
    THEN FlipStart(<<Last(pile)>> \o Pop(pile))
    ELSE [pile |-> Pop(pile), startCard |-> Last(pile)]

\* a dealCards that flips whatever card is on top as the starting discard
dealCardsAnyStart(room) ==
    LET d == DealPlayers(room.players, room.game.drawPile, 1)
    IN [room EXCEPT !.players = d.players,
                    !.game.drawPile = Pop(d.pile),
                    !.game.discardPile = <<Last(d.pile)>>,
                    !.game.currentColor = Last(d.pile).color]

\* dealCards on a room whose game has just been built
dealCards(room) ==
    LET d == DealPlayers(room.players, room.game.drawPile, 1)
        f == FlipStart(d.pile)
    IN [room EXCEPT !.players = d.players,
                    !.game.drawPile = f.pile,
                    !.game.discardPile = <<f.startCard>>,
                    !.game.currentColor = f.startCard.color]

topCard(game) == Last(game.discardPile)

\* an isValidPlay that lets any number be played on any number
isValidPlayAnyNumber(card, top, currentColor) ==
    IF card.type \in WILD_TYPES THEN TRUE
    ELSE IF card.color = currentColor THEN TRUE
    ELSE IF card.type = top.type THEN TRUE
    ELSE FALSE

isValidPlay(card, top, currentColor) ==
    IF card.type \in WILD_TYPES THEN TRUE
    ELSE IF card.color = currentColor THEN TRUE
    ELSE IF card.type = "number" /\ top.type = "number" /\ card.value = top.value THEN TRUE
    ELSE IF card.type # "number" /\ card.type = top.type THEN TRUE
    ELSE FALSE

\* JavaScript's %: the result takes the sign of the dividend
JsMod(a, n) == IF a >= 0 THEN a % n ELSE -((-a) % n)

\* a nextPlayerIndex that moves one seat whether or not a seat is to be skipped
nextPlayerIndexOneStep(room, skip) ==
    LET n == Len(room.players)
    IN JsMod(JsMod(room.game.currentPlayerIndex + room.game.direction, n) + n, n)

\* a nextPlayerIndex that takes JavaScript's remainder without the '+ n' correction
nextPlayerIndexNoWrap(room, skip) ==
    LET n == Len(room.players)
        step == room.game.direction * (IF skip THEN 2 ELSE 1)
    IN JsMod(room.game.currentPlayerIndex + step, n)

nextPlayerIndex(room, skip) ==
    LET n == Len(room.players)
        step == room.game.direction * (IF skip THEN 2 ELSE 1)
    IN JsMod(JsMod(room.game.currentPlayerIndex + step, n) + n, n)

\* a reshuffle that forgets to take the top card out of what it shuffles
reshuffleWithTop(room, seed) ==
    IF Len(room.game.discardPile) <= 1 THEN room
    ELSE [room EXCEPT !.game.drawPile = shuffle(room.game.discardPile, seed),
                      !.game.discardPile = <<Last(room.game.discardPile)>>]

reshuffleDiscardIntoDraw(room, seed) ==
    IF Len(room.game.discardPile) <= 1 THEN room
    ELSE [room EXCEPT !.game.drawPile = shuffle(Pop(room.game.discardPile), seed),
                      !.game.discardPile = <<Last(room.game.discardPile)>>]

RECURSIVE DrawLoop(_, _, _, _, _)
DrawLoop(room, playerIndex, count, seed, i) ==
    IF i >= count THEN room
    ELSE LET r1 == IF Len(room.game.drawPile) = 0
                   THEN reshuffleDiscardIntoDraw(room, seed) ELSE room
         IN IF Len(r1.game.drawPile) = 0 THEN r1
            ELSE DrawLoop([r1 EXCEPT
                               !.players[playerIndex + 1].hand =
                                   Append(@, Last(r1.game.drawPile)),
                               !.game.drawPile = Pop(@)],
                          playerIndex, count, seed, i + 1)

\* a drawCards that gives up as soon as the draw pile is empty
RECURSIVE drawCardsNoReshuffle(_, _, _, _)
drawCardsNoReshuffle(room, playerIndex, count, seed) ==
    IF count <= 0 \/ Len(room.game.drawPile) = 0 THEN room
    ELSE drawCardsNoReshuffle([room EXCEPT
                                   !.players[playerIndex + 1].hand =
                                       Append(@, Last(room.game.drawPile)),
                                   !.game.drawPile = Pop(@)],
                              playerIndex, count - 1, seed)

\* drawCards(game, playerIndex, count); seed numbers the random stream of a reshuffle
drawCards(room, playerIndex, count, seed) == DrawLoop(room, playerIndex, count, seed, 0)

\* chosenColor || 'red'
ColorOrRed(chosenColor) == IF chosenColor = "" THEN "red" ELSE chosenColor

\* an applyCardEffect whose draw_two and wild_draw_four hand the turn to the
\* penalised seat instead of skipping it
applyCardEffectNoSkip(room, card, chosenColor, seed) ==
    CASE card.type \in WILD_TYPES ->
            LET r1 == [room EXCEPT !.game.currentColor = ColorOrRed(chosenColor)]
            IN IF card.type = "wild_draw_four"
               THEN LET r2 == drawCards(r1, nextPlayerIndex(r1, FALSE), 4, seed)
                    IN [r2 EXCEPT !.game.currentPlayerIndex = nextPlayerIndex(r2, FALSE)]
               ELSE [r1 EXCEPT !.game.currentPlayerIndex = nextPlayerIndex(r1, FALSE)]
      [] card.type = "skip" ->
            [room EXCEPT !.game.currentPlayerIndex = nextPlayerIndex(room, TRUE)]
      [] card.type = "reverse" ->
            IF Len(room.players) = 2
            THEN [room EXCEPT !.game.currentPlayerIndex = nextPlayerIndex(room, TRUE)]
            ELSE LET r1 == [room EXCEPT !.game.direction = @ * (-1)]
                 IN [r1 EXCEPT !.game.currentPlayerIndex = nextPlayerIndex(r1, FALSE)]
      [] card.type = "draw_two" ->
            LET r2 == drawCards(room, nextPlayerIndex(room, FALSE), 2, seed)
            IN [r2 EXCEPT !.game.currentPlayerIndex = nextPlayerIndex(r2, FALSE)]
      [] OTHER ->
            LET r1 == [room EXCEPT !.game.currentColor = card.color]
            IN [r1 EXCEPT !.game.currentPlayerIndex = nextPlayerIndex(r1, FALSE)]

\* an applyCardEffect whose reverse flips the direction and moves one seat on
\* whatever the number of players
applyCardEffectReverseFlips(room, card, chosenColor, seed) ==
    CASE card.type \in WILD_TYPES ->
            LET r1 == [room EXCEPT !.game.currentColor = ColorOrRed(chosenColor)]
            IN IF card.type = "wild_draw_four"
               THEN LET r2 == drawCards(r1, nextPlayerIndex(r1, FALSE), 4, seed)
                    IN [r2 EXCEPT !.game.currentPlayerIndex = nextPlayerIndex(r2, TRUE)]
               ELSE [r1 EXCEPT !.game.currentPlayerIndex = nextPlayerIndex(r1, FALSE)]
      [] card.type = "skip" ->
            [room EXCEPT !.game.currentPlayerIndex = nextPlayerIndex(room, TRUE)]
      [] card.type = "reverse" ->
            LET r1 == [room EXCEPT !.game.direction = @ * (-1)]
            IN [r1 EXCEPT !.game.currentPlayerIndex = nextPlayerIndex(r1, FALSE)]
      [] card.type = "draw_two" ->
            LET r2 == drawCards(room, nextPlayerIndex(room, FALSE), 2, seed)
            IN [r2 EXCEPT !.game.currentPlayerIndex = nextPlayerIndex(r2, TRUE)]
      [] OTHER ->
            LET r1 == [room EXCEPT !.game.currentColor = card.color]
            IN [r1 EXCEPT !.game.currentPlayerIndex = nextPlayerIndex(r1, FALSE)]

applyCardEffect(room, card, chosenColor, seed) ==
    CASE card.type \in WILD_TYPES ->
            LET r1 == [room EXCEPT !.game.currentColor = ColorOrRed(chosenColor)]
            IN IF card.type = "wild_draw_four"
               THEN LET r2 == drawCards(r1, nextPlayerIndex(r1, FALSE), 4, seed)
                    IN [r2 EXCEPT !.game.currentPlayerIndex = nextPlayerIndex(r2, TRUE)]
               ELSE [r1 EXCEPT !.game.currentPlayerIndex = nextPlayerIndex(r1, FALSE)]
      [] card.type = "skip" ->
            [room EXCEPT !.game.currentPlayerIndex = nextPlayerIndex(room, TRUE)]
      [] card.type = "reverse" ->
            IF Len(room.players) = 2
            THEN [room EXCEPT !.game.currentPlayerIndex = nextPlayerIndex(room, TRUE)]
            ELSE LET r1 == [room EXCEPT !.game.direction = @ * (-1)]
                 IN [r1 EXCEPT !.game.currentPlayerIndex = nextPlayerIndex(r1, FALSE)]
      [] card.type = "draw_two" ->
            LET r2 == drawCards(room, nextPlayerIndex(room, FALSE), 2, seed)
            IN [r2 EXCEPT !.game.currentPlayerIndex = nextPlayerIndex(r2, TRUE)]
      [] OTHER ->
            LET r1 == [room EXCEPT !.game.currentColor = card.color]
            IN [r1 EXCEPT !.game.currentPlayerIndex = nextPlayerIndex(r1, FALSE)]

checkWin(player) == Len(player.hand) = 0


---------------------------------------------------------------------------
(* Inputs *)

\* room codes generateRoomCode may return
Codes == {"ABC234", "XYZ789"}

\* room codes as clients send them
CodeInputs == {"ABC234", "abc234", "XYZ789", "ZZZZZZ"}

\* String.prototype.toUpperCase on the codes clients send
toUpperCase(c) == IF c = "abc234" THEN "ABC234" ELSE c

\* connection ids (socket.id)
Sockets == {"s1", "s2", "s3", "s4", "s5"}

\* no socket (an oldSocketId nobody has)
NoSocket == "s0"

\* nicknames as clients send them
NickInputs == {"ann", "bob", " ann ", "", "bartholomew-the-second"}

\* String.prototype.trim on the nicknames clients send
trim(n) == IF n = " ann " THEN "ann" ELSE n

\* slice(0, 20) on the nicknames clients send
slice20(n) == IF n = "bartholomew-the-second" THEN "bartholomew-the-seco" ELSE n

NULL == "null"
NULLGAME == [phase |-> "null"]

---------------------------------------------------------------------------
(* roomManager: the registry *)

RoomIndex(rs, code) ==
    IF \E i \in 1..Len(rs) : rs[i].code = code
    THEN CHOOSE i \in 1..Len(rs) : rs[i].code = code
    ELSE 0

\* Array.prototype.findIndex, 1-based, 0 when nothing matches
FindIndex(seq, P(_)) ==
    IF \E i \in 1..Len(seq) : P(seq[i])
    THEN CHOOSE i \in 1..Len(seq) : P(seq[i]) /\ \A j \in 1..(i - 1) : ~P(seq[j])
    ELSE 0

RemoveAt(seq, i) == SubSeq(seq, 1, i - 1) \o SubSeq(seq, i + 1, Len(seq))

makePlayer(socketId, nickname) ==
    [id |-> socketId,
     nickname |-> (IF slice20(trim(nickname)) = "" THEN "Player" ELSE slice20(trim(nickname))),
     isConnected |-> TRUE,
     hand |-> <<>>,
     clashSafe |-> FALSE]

Ok == [ok |-> TRUE, error |-> ""]
Err(msg) == [ok |-> FALSE, error |-> msg]

\* createRoom: the registry with the new room appended
createRoom(rs, socketId, nickname, code) ==
    Append(rs, [code |-> code, hostId |-> socketId,
                players |-> <<makePlayer(socketId, nickname)>>,
                phase |-> "lobby", game |-> NULLGAME])

\* a joinRoom that never looks at the capacity
joinRoomUnbounded(rs, socketId, roomCode, nickname) ==
    LET i == RoomIndex(rs, toUpperCase(roomCode)) IN
    IF i = 0 THEN [rooms |-> rs, res |-> Err("Room not found.")]
    ELSE IF rs[i].phase # "lobby" THEN [rooms |-> rs, res |-> Err("Game already in progress.")]
    ELSE IF \E k \in 1..Len(rs[i].players) : rs[i].players[k].id = socketId
         THEN [rooms |-> rs, res |-> Ok]
    ELSE [rooms |-> [rs EXCEPT ![i].players = Append(@, makePlayer(socketId, nickname))],
          res |-> Ok]

\* joinRoom: [rooms, res]; the capacity is looked at before the roster, and the
\* message of a full room is written here without its "(max N players)"
joinRoom(rs, socketId, roomCode, nickname) ==
    LET i == RoomIndex(rs, toUpperCase(roomCode)) IN
    IF i = 0 THEN [rooms |-> rs, res |-> Err("Room not found.")]
    ELSE IF rs[i].phase # "lobby" THEN [rooms |-> rs, res |-> Err("Game already in progress.")]
    ELSE IF Len(rs[i].players) >= MAX_PLAYERS THEN [rooms |-> rs, res |-> Err("Room is full.")]
    ELSE IF \E k \in 1..Len(rs[i].players) : rs[i].players[k].id = socketId
         THEN [rooms |-> rs, res |-> Ok]
    ELSE [rooms |-> [rs EXCEPT ![i].players = Append(@, makePlayer(socketId, nickname))],
          res |-> Ok]

\* index of the first room holding a player with this id, 0 when there is none
RoomOfSocket(rs, socketId) ==
    FindIndex(rs, LAMBDA room : \E k \in 1..Len(room.players) : room.players[k].id = socketId)

\* leaveRoom: [rooms, kind, code, armed]; kind is "none" (result {}), "deleted" or
\* "room"; armed tells whether the grace timer <<code, socketId>> is set
leaveRoom(rs, socketId) ==
    LET i == RoomOfSocket(rs, socketId) IN
    IF i = 0 THEN [rooms |-> rs, kind |-> "none", code |-> "", armed |-> FALSE]
    ELSE LET room == rs[i]
             idx == FindIndex(room.players, LAMBDA p : p.id = socketId)
         IN IF room.phase = "lobby"
            THEN LET rest == RemoveAt(room.players, idx) IN
                 IF Len(rest) = 0
                 THEN [rooms |-> RemoveAt(rs, i), kind |-> "deleted",
                       code |-> room.code, armed |-> FALSE]
                 ELSE [rooms |-> [rs EXCEPT ![i].players = rest,
                                           ![i].hostId = IF room.hostId = socketId
                                                         THEN rest[1].id ELSE @],
                       kind |-> "room", code |-> room.code, armed |-> FALSE]
            ELSE [rooms |-> [rs EXCEPT ![i].players[idx].isConnected = FALSE],
                  kind |-> "room", code |-> room.code, armed |-> TRUE]

\* kickPlayer: [rooms, res]
kickPlayer(rs, roomCode, hostSocketId, targetSocketId) ==
    LET i == RoomIndex(rs, roomCode) IN
    IF i = 0 THEN [rooms |-> rs, res |-> Err("Room not found.")]
    ELSE IF rs[i].hostId # hostSocketId
         THEN [rooms |-> rs, res |-> Err("Only the host can kick players.")]
    ELSE IF rs[i].phase # "lobby" THEN [rooms |-> rs, res |-> Err("Cannot kick during a game.")]
    ELSE LET idx == FindIndex(rs[i].players, LAMBDA p : p.id = targetSocketId) IN
         IF idx = 0 THEN [rooms |-> rs, res |-> Err("Player not found.")]
         ELSE [rooms |-> [rs EXCEPT ![i].players = RemoveAt(@, idx)], res |-> Ok]

\* the game state startGame builds before dealing
NewGame(deck) ==
    [phase |-> "game", drawPile |-> deck, discardPile |-> <<>>,
     currentPlayerIndex |-> 0, currentColor |-> "red", direction |-> 1,
     winner |-> NULL, clashCalledBy |-> NULL]

\* startGame: [rooms, res]; seed numbers the random stream of the shuffle
startGame(rs, roomCode, hostSocketId, seed) ==
    LET i == RoomIndex(rs, roomCode) IN
    IF i = 0 THEN [rooms |-> rs, res |-> Err("Room not found.")]
    ELSE IF rs[i].hostId # hostSocketId
         THEN [rooms |-> rs, res |-> Err("Only the host can start.")]
    ELSE IF Len(rs[i].players) < 2 THEN [rooms |-> rs, res |-> Err("Need at least 2 players.")]
    ELSE IF rs[i].phase # "lobby" THEN [rooms |-> rs, res |-> Err("Game already started.")]
    ELSE LET built == [rs[i] EXCEPT
                          !.game = NewGame(shuffle(createDeck, seed)),
                          !.players = [k \in 1..Len(rs[i].players) |->
                                          [rs[i].players[k] EXCEPT !.hand = <<>>,
                                                                   !.clashSafe = FALSE]]]
         IN [rooms |-> [rs EXCEPT ![i] = [dealCards(built) EXCEPT !.phase = "game"]],
             res |-> Ok]

\* a reconnectPlayer that looks for the nickname among the disconnected players
\* before it looks for the previous id
reconnectNicknameFirst(rs, roomCode, oldSocketId, newSocketId, nickname) ==
    LET i == RoomIndex(rs, roomCode) IN
    IF i = 0 THEN [rooms |-> rs, res |-> Err("Room not found."), cancel |-> <<>>]
    ELSE
    LET room == rs[i]
        byNick == IF nickname = "" THEN 0
                  ELSE FindIndex(room.players,
                                 LAMBDA p : p.nickname = trim(nickname) /\ ~p.isConnected)
        idx == IF byNick = 0
               THEN FindIndex(room.players, LAMBDA p : p.id = oldSocketId)
               ELSE byNick
    IN
    IF idx = 0
    THEN IF room.phase = "lobby"
         THEN LET j == joinRoom(rs, newSocketId, roomCode, nickname)
              IN [rooms |-> j.rooms, res |-> j.res, cancel |-> <<>>]
         ELSE [rooms |-> rs, res |-> Err("Player not found in this game."), cancel |-> <<>>]
    ELSE [rooms |-> [rs EXCEPT ![i].players[idx].id = newSocketId,
                               ![i].players[idx].isConnected = TRUE,
                               ![i].hostId = IF room.hostId = oldSocketId
                                             THEN newSocketId ELSE @],
          res |-> Ok, cancel |-> <<room.code, room.players[idx].id>>]

\* reconnectPlayer: [rooms, res, cancel]; cancel is the grace-timer key looked up
\* in disconnectTimers (<<>> when the lookup is not reached)
reconnectPlayer(rs, roomCode, oldSocketId, newSocketId, nickname) ==
    LET i == RoomIndex(rs, roomCode) IN
    IF i = 0 THEN [rooms |-> rs, res |-> Err("Room not found."), cancel |-> <<>>]
    ELSE
    LET room == rs[i]
        byId == FindIndex(room.players, LAMBDA p : p.id = oldSocketId)
        idx == IF byId = 0 /\ nickname # ""
               THEN FindIndex(room.players,
                              LAMBDA p : p.nickname = trim(nickname) /\ ~p.isConnected)
               ELSE byId
    IN
    IF idx = 0
    THEN IF room.phase = "lobby"
         THEN LET j == joinRoom(rs, newSocketId, roomCode, nickname)
              IN [rooms |-> j.rooms, res |-> j.res, cancel |-> <<>>]
         ELSE [rooms |-> rs, res |-> Err("Player not found in this game."), cancel |-> <<>>]
    ELSE
    LET key == <<room.code, room.players[idx].id>>
        r1 == [room EXCEPT !.players[idx].id = newSocketId,
                           !.players[idx].isConnected = TRUE,
                           !.hostId = IF room.hostId = oldSocketId THEN newSocketId ELSE @]
        \* game.players is the same array as room.players after startGame
        gp == IF r1.game = NULLGAME THEN 0
              ELSE FindIndex(r1.players,
                             LAMBDA p : p.id = oldSocketId
                                        \/ p.nickname = r1.players[idx].nickname)
        r2 == IF gp = 0 THEN r1
              ELSE [r1 EXCEPT !.players[gp].id = newSocketId,
                              !.players[gp].isConnected = TRUE]
    IN [rooms |-> [rs EXCEPT ![i] = r2], res |-> Ok, cancel |-> key]

\* getRoom: index of the room, 0 when rooms.get yields undefined
getRoom(rs, roomCode) == RoomIndex(rs, toUpperCase(roomCode))

---------------------------------------------------------------------------
(* socketHandlers.js: the turn timer *)

\* turnTimers and turnPending after clearTurnTimer(code)
clearTurnTimer(tt, code) ==
    IF tt.timers[code] # "none"
    THEN [timers |-> [tt.timers EXCEPT ![code] = "none"],
          pending |-> [tt.pending EXCEPT ![code] =
                          IF tt.timers[code] = "live" THEN @ - 1 ELSE @]]
    ELSE tt

\* a startTurnTimer that sets a new timeout without clearing the previous one
startTurnTimerNoClear(tt, code) ==
    [timers |-> [tt.timers EXCEPT ![code] = "live"],
     pending |-> [tt.pending EXCEPT ![code] = @ + 1]]

\* startTurnTimer(io, room): clear, then setTimeout and turnTimers.set
startTurnTimer(tt, code) ==
    LET c == clearTurnTimer(tt, code)
    IN [timers |-> [c.timers EXCEPT ![code] = "live"],
        pending |-> [c.pending EXCEPT ![code] = @ + 1]]

TT == [timers |-> turnTimers, pending |-> turnPending]

\* (currentPlayerIndex + direction + players.length) % players.length
StepOne(room) ==
    (room.game.currentPlayerIndex + room.game.direction + Len(room.players))
        % Len(room.players)

\* a timeout callback that makes the current player draw, connected or not
timeoutTurnAlwaysDraws(room, seed) ==
    LET r1 == drawCards(room, room.game.currentPlayerIndex, 1, seed)
    IN [r1 EXCEPT !.game.currentPlayerIndex = StepOne(r1)]

\* the body of the timeout callback for a room in game
\* a timeout that waits for a disconnected occupant instead of passing the turn
timeoutTurnWaitsForOffline(room, seed) ==
    LET player == room.players[room.game.currentPlayerIndex + 1] IN
    IF ~player.isConnected
    THEN room
    ELSE LET r1 == drawCards(room, room.game.currentPlayerIndex, 1, seed)
         IN [r1 EXCEPT !.game.currentPlayerIndex = StepOne(r1)]

timeoutTurn(room, seed) ==
    LET player == room.players[room.game.currentPlayerIndex + 1] IN
    IF ~player.isConnected
    THEN [room EXCEPT !.game.currentPlayerIndex = StepOne(room)]
    ELSE LET r1 == drawCards(room, room.game.currentPlayerIndex, 1, seed)
         IN [r1 EXCEPT !.game.currentPlayerIndex = StepOne(r1)]

\* the rankings of 'game:ended': stable sort of the losers by hand size
RECURSIVE InsertLoser(_, _)
InsertLoser(sorted, p) ==
    IF sorted = <<>> THEN <<p>>
    ELSE IF Len(Last(sorted).hand) - Len(p.hand) > 0
         THEN Append(InsertLoser(Pop(sorted), p), Last(sorted))
         ELSE Append(sorted, p)

RECURSIVE SortLosers(_, _)
SortLosers(players, k) ==
    IF k = 0 THEN <<>> ELSE InsertLoser(SortLosers(players, k - 1), players[k])

Filter(seq, P(_)) == SelectSeq(seq, P)

buildRankings(room, currentPlayer) ==
    LET others == Filter(room.players, LAMBDA p : p.id # currentPlayer.id)
        losers == SortLosers(others, Len(others))
    IN <<[rank |-> 1, id |-> currentPlayer.id, nickname |-> currentPlayer.nickname,
          cardCount |-> 0]>>
       \o [i \in 1..Len(losers) |->
              [rank |-> i + 1, id |-> losers[i].id, nickname |-> losers[i].nickname,
               cardCount |-> Len(losers[i].hand)]]

\* game:playCard, the validations: the error the callback is given, "" when the
\* play is accepted
playError(room, socketId, cardIndex, chosenColor) ==
    LET game == room.game
        currentPlayer == room.players[game.currentPlayerIndex + 1]
    IN IF currentPlayer.id # socketId THEN "Not your turn."
       ELSE IF ~(cardIndex + 1 \in 1..Len(currentPlayer.hand)) THEN "Invalid card."
       ELSE IF ~isValidPlay(currentPlayer.hand[cardIndex + 1], topCard(game),
                            game.currentColor)
            THEN "Invalid move."
       ELSE IF currentPlayer.hand[cardIndex + 1].type \in WILD_TYPES /\ chosenColor = ""
            THEN "Must choose a color for wild card."
       ELSE ""

\* game:playCard, the card leaves the hand for the discard pile and the clash
\* safety is reset
discardCard(room, cardIndex) ==
    LET k == room.game.currentPlayerIndex + 1 IN
    [room EXCEPT !.players[k].hand = RemoveAt(@, cardIndex + 1),
                 !.players[k].clashSafe = FALSE,
                 !.game.discardPile = Append(@, room.players[k].hand[cardIndex + 1]),
                 !.game.clashCalledBy = NULL]

\* game:playCard, the win branch
\* a win branch that marks the room finished and leaves the game's own phase
endGameRoomOnly(room) ==
    [room EXCEPT !.game.winner = room.players[room.game.currentPlayerIndex + 1].nickname,
                 !.phase = "results"]

endGame(room) ==
    [room EXCEPT !.game.winner = room.players[room.game.currentPlayerIndex + 1].nickname,
                 !.game.phase = "results",
                 !.phase = "results"]

\* a playCard that asks for the color of a wild only after the card has left the hand
playCardLateColorCheck(room, socketId, cardIndex, chosenColor, seed) ==
    LET error == playError(room, socketId, cardIndex, "red") IN
    IF error # ""
    THEN [room |-> room, res |-> Err(error), won |-> FALSE, rankings |-> <<>>]
    ELSE
    LET k == room.game.currentPlayerIndex + 1
        card == room.players[k].hand[cardIndex + 1]
        r1 == discardCard(room, cardIndex)
    IN IF card.type \in WILD_TYPES /\ chosenColor = ""
       THEN [room |-> r1, res |-> Err("Must choose a color for wild card."),
             won |-> FALSE, rankings |-> <<>>]
       ELSE IF checkWin(r1.players[k])
       THEN [room |-> endGame(r1), res |-> Ok, won |-> TRUE,
             rankings |-> buildRankings(r1, r1.players[k])]
       ELSE [room |-> applyCardEffect(r1, card, chosenColor, seed),
             res |-> Ok, won |-> FALSE, rankings |-> <<>>]

\* a playCard that resolves the card's effect before it looks for a winner
playCardEffectFirst(room, socketId, cardIndex, chosenColor, seed) ==
    LET error == playError(room, socketId, cardIndex, chosenColor) IN
    IF error # ""
    THEN [room |-> room, res |-> Err(error), won |-> FALSE, rankings |-> <<>>]
    ELSE
    LET k == room.game.currentPlayerIndex + 1
        card == room.players[k].hand[cardIndex + 1]
        r1 == discardCard(room, cardIndex)
        r2 == applyCardEffect(r1, card, chosenColor, seed)
    IN IF checkWin(r1.players[k])
       THEN [room |-> [r2 EXCEPT !.game.winner = r1.players[k].nickname,
                                 !.game.phase = "results", !.phase = "results"],
             res |-> Ok, won |-> TRUE, rankings |-> buildRankings(r2, r2.players[k])]
       ELSE [room |-> r2, res |-> Ok, won |-> FALSE, rankings |-> <<>>]

\* game:playCard: [room, res, won, rankings]
playCard(room, socketId, cardIndex, chosenColor, seed) ==
    LET error == playError(room, socketId, cardIndex, chosenColor) IN
    IF error # ""
    THEN [room |-> room, res |-> Err(error), won |-> FALSE, rankings |-> <<>>]
    ELSE
    LET k == room.game.currentPlayerIndex + 1
        card == room.players[k].hand[cardIndex + 1]
        r1 == discardCard(room, cardIndex)
    IN IF checkWin(r1.players[k])
       THEN [room |-> endGame(r1), res |-> Ok, won |-> TRUE,
             rankings |-> buildRankings(r1, r1.players[k])]
       ELSE [room |-> applyCardEffect(r1, card, chosenColor, seed),
             res |-> Ok, won |-> FALSE, rankings |-> <<>>]

\* game:drawCard: [room, res]
drawCard(room, socketId, seed) ==
    LET game == room.game
        currentPlayer == room.players[game.currentPlayerIndex + 1]
    IN
    IF currentPlayer.id # socketId THEN [room |-> room, res |-> Err("Not your turn.")]
    ELSE
    LET r1 == drawCards(room, game.currentPlayerIndex, 1, seed)
        hand == r1.players[game.currentPlayerIndex + 1].hand
        canPlay == Len(hand) > 0
                   /\ isValidPlay(Last(hand), topCard(r1.game), r1.game.currentColor)
    IN [room |-> IF ~canPlay THEN [r1 EXCEPT !.game.currentPlayerIndex = StepOne(r1)]
                 ELSE r1,
        res |-> Ok]

\* game:callClash: [room, res]
callClash(room, socketId) ==
    LET k == FindIndex(room.players, LAMBDA p : p.id = socketId) IN
    IF k = 0 THEN [room |-> room, res |-> Err("Not in game.")]
    ELSE IF Len(room.players[k].hand) # 1
         THEN [room |-> room, res |-> Err("Can only call Color Clash with 1 card.")]
    ELSE [room |-> [room EXCEPT !.players[k].clashSafe = TRUE,
                                !.game.clashCalledBy = room.players[k].nickname],
          res |-> Ok]

\* an accuseClash that does not look at the target's safety flag
accuseClashIgnoresSafe(room, targetSocketId, seed) ==
    LET k == FindIndex(room.players, LAMBDA p : p.id = targetSocketId) IN
    IF k = 0 THEN [room |-> room, res |-> Err("Player not found.")]
    ELSE IF Len(room.players[k].hand) # 1
         THEN [room |-> room, res |-> Err("Target does not have 1 card.")]
    ELSE [room |-> drawCards(room, k - 1, 2, seed), res |-> Ok]

\* game:accuseClash: [room, res]
accuseClash(room, targetSocketId, seed) ==
    LET k == FindIndex(room.players, LAMBDA p : p.id = targetSocketId) IN
    IF k = 0 THEN [room |-> room, res |-> Err("Player not found.")]
    ELSE IF Len(room.players[k].hand) # 1
         THEN [room |-> room, res |-> Err("Target does not have 1 card.")]
    ELSE IF room.players[k].clashSafe
         THEN [room |-> room, res |-> Err("Player already called Color Clash.")]
    ELSE [room |-> drawCards(room, k - 1, 2, seed), res |-> Ok]

\* game:rematch on the room found
rematch(room) ==
    [room EXCEPT !.phase = "lobby", !.game = NULLGAME,
                 !.players = [k \in 1..Len(room.players) |->
                                 [room.players[k] EXCEPT !.hand = <<>>, !.clashSafe = FALSE]]]

---------------------------------------------------------------------------
(* State machine: one action per socket event or timer callback *)

Keys == Codes \X Sockets

LiveCodes == {rooms[i].code : i \in 1..Len(rooms)}

Reply(op, res) == [op |-> op, ok |-> res.ok, error |-> res.error]

InitWith(b) ==
    /\ rooms = <<>>
    /\ closed = {}
    /\ turnTimers = [c \in Codes |-> "none"]
    /\ turnPending = [c \in Codes |-> 0]
    /\ disconnectTimers = {}
    /\ gracePending = [k \in Keys |-> 0]
    /\ reply = [op |-> "none", ok |-> TRUE, error |-> ""]
    /\ rankings = <<>>
    /\ budget = b

TimersUnchanged == UNCHANGED <<turnTimers, turnPending, disconnectTimers, gracePending>>

\* socket.on('room:create'); code is what generateRoomCode returns: a code no live
\* room has, and (one in 32^6) not the code of a deleted room whose timers still run
RoomCreate(s, nickname, code) ==
    /\ s \notin closed
    /\ code \notin LiveCodes
    /\ turnPending[code] = 0
    /\ \A k \in Keys : k[1] = code => gracePending[k] = 0
    /\ rooms' = createRoom(rooms, s, nickname, code)
    /\ reply' = Reply("room:create", Ok)
    /\ TimersUnchanged
    /\ UNCHANGED <<closed, rankings, budget>>

\* socket.on('room:join')
RoomJoin(s, roomCode, nickname) ==
    /\ s \notin closed
    /\ LET j == joinRoom(rooms, s, roomCode, nickname)
       IN /\ rooms' = j.rooms
          /\ reply' = Reply("room:join", j.res)
    /\ TimersUnchanged
    /\ UNCHANGED <<closed, rankings, budget>>

\* socket.on('room:reconnect')
RoomReconnect(s, roomCode, oldSocketId, nickname) ==
    /\ s \notin closed
    /\ LET r == reconnectPlayer(rooms, roomCode, oldSocketId, s, nickname)
           hit == r.cancel # <<>> /\ r.cancel \in disconnectTimers
       IN /\ rooms' = r.rooms
          /\ reply' = Reply("room:reconnect", r.res)
          /\ disconnectTimers' = IF hit THEN disconnectTimers \ {r.cancel}
                                 ELSE disconnectTimers
          /\ gracePending' = IF hit THEN [gracePending EXCEPT ![r.cancel] = @ - 1]
                             ELSE gracePending
    /\ UNCHANGED <<closed, turnTimers, turnPending, rankings, budget>>

\* socket.on('room:kick')
RoomKick(s, roomCode, targetSocketId) ==
    /\ s \notin closed
    /\ LET k == kickPlayer(rooms, roomCode, s, targetSocketId)
       IN /\ rooms' = k.rooms
          /\ reply' = Reply("room:kick", k.res)
    /\ TimersUnchanged
    /\ UNCHANGED <<closed, rankings, budget>>

\* socket.on('game:start')
GameStart(s, roomCode, seed) ==
    /\ s \notin closed
    /\ LET g == startGame(rooms, roomCode, s, seed)
           tt == IF g.res.ok THEN startTurnTimer(TT, roomCode) ELSE TT
       IN /\ rooms' = g.rooms
          /\ reply' = Reply("game:start", g.res)
          /\ turnTimers' = tt.timers
          /\ turnPending' = tt.pending
    /\ UNCHANGED <<closed, disconnectTimers, gracePending, rankings, budget>>

\* a guard that takes a finished game for an active one
NoActiveGameInLobbyOnly(i) == i = 0 \/ rooms[i].phase = "lobby"

NoActiveGame(i) == i = 0 \/ rooms[i].phase # "game"

\* socket.on('game:playCard')
GamePlayCard(s, roomCode, cardIndex, chosenColor, seed) ==
    /\ s \notin closed
    /\ LET i == getRoom(rooms, roomCode) IN
       IF NoActiveGame(i)
       THEN /\ reply' = Reply("game:playCard", Err("No active game."))
            /\ UNCHANGED <<rooms, turnTimers, turnPending, rankings, budget>>
       ELSE LET p == playCard(rooms[i], s, cardIndex, chosenColor, seed)
                tt == IF ~p.res.ok THEN TT
                      ELSE IF p.won THEN clearTurnTimer(TT, rooms[i].code)
                      ELSE startTurnTimer(TT, rooms[i].code)
            IN /\ p.res.ok => budget > 0
               /\ rooms' = [rooms EXCEPT ![i] = p.room]
               /\ reply' = Reply("game:playCard", p.res)
               /\ turnTimers' = tt.timers
               /\ turnPending' = tt.pending
               /\ rankings' = IF p.won THEN p.rankings ELSE rankings
               /\ budget' = IF p.res.ok THEN budget - 1 ELSE budget
    /\ UNCHANGED <<closed, disconnectTimers, gracePending>>

\* socket.on('game:drawCard')
GameDrawCard(s, roomCode, seed) ==
    /\ s \notin closed
    /\ LET i == getRoom(rooms, roomCode) IN
       IF NoActiveGame(i)
       THEN /\ reply' = Reply("game:drawCard", Err("No active game."))
            /\ UNCHANGED <<rooms, turnTimers, turnPending, budget>>
       ELSE LET d == drawCard(rooms[i], s, seed)
                tt == IF d.res.ok THEN startTurnTimer(TT, rooms[i].code) ELSE TT
            IN /\ d.res.ok => budget > 0
               /\ rooms' = [rooms EXCEPT ![i] = d.room]
               /\ reply' = Reply("game:drawCard", d.res)
               /\ turnTimers' = tt.timers
               /\ turnPending' = tt.pending
               /\ budget' = IF d.res.ok THEN budget - 1 ELSE budget
    /\ UNCHANGED <<closed, disconnectTimers, gracePending, rankings>>

\* socket.on('game:callClash')
GameCallClash(s, roomCode) ==
    /\ s \notin closed
    /\ LET i == getRoom(rooms, roomCode) IN
       IF NoActiveGame(i)
       THEN /\ reply' = Reply("game:callClash", Err("No active game."))
            /\ UNCHANGED rooms
       ELSE LET c == callClash(rooms[i], s)
            IN /\ rooms' = [rooms EXCEPT ![i] = c.room]
               /\ reply' = Reply("game:callClash", c.res)
    /\ TimersUnchanged
    /\ UNCHANGED <<closed, rankings, budget>>

\* socket.on('game:accuseClash')
GameAccuseClash(s, roomCode, targetSocketId, seed) ==
    /\ s \notin closed
    /\ LET i == getRoom(rooms, roomCode) IN
       IF NoActiveGame(i)
       THEN /\ reply' = Reply("game:accuseClash", Err("No active game."))
            /\ UNCHANGED <<rooms, budget>>
       ELSE LET a == accuseClash(rooms[i], targetSocketId, seed)
            IN /\ a.res.ok => budget > 0
               /\ rooms' = [rooms EXCEPT ![i] = a.room]
               /\ reply' = Reply("game:accuseClash", a.res)
               /\ budget' = IF a.res.ok THEN budget - 1 ELSE budget
    /\ TimersUnchanged
    /\ UNCHANGED <<closed, rankings>>

\* socket.on('game:rematch')
GameRematch(s, roomCode) ==
    /\ s \notin closed
    /\ LET i == getRoom(rooms, roomCode) IN
       IF i = 0
       THEN /\ reply' = Reply("game:rematch", Err("Room not found."))
            /\ UNCHANGED <<rooms, budget>>
       ELSE IF rooms[i].hostId # s
       THEN /\ reply' = Reply("game:rematch", Err("Only host can rematch."))
            /\ UNCHANGED <<rooms, budget>>
       ELSE /\ rooms' = [rooms EXCEPT ![i] = rematch(rooms[i])]
            /\ reply' = Reply("game:rematch", Ok)
            /\ UNCHANGED budget
    /\ TimersUnchanged
    /\ UNCHANGED <<closed, rankings>>

\* socket.on('disconnect')
Disconnect(s) ==
    /\ s \notin closed
    /\ closed' = closed \cup {s}
    /\ LET l == leaveRoom(rooms, s)
           i == RoomIndex(l.rooms, l.code)
           key == <<l.code, s>>
           skip == /\ l.kind = "room"
                   /\ l.rooms[i].phase = "game"
                   /\ l.rooms[i].game # NULLGAME
                   /\ l.rooms[i].players[l.rooms[i].game.currentPlayerIndex + 1].id = s
           tt == IF skip THEN startTurnTimer(TT, l.code) ELSE TT
       IN /\ rooms' = IF skip
                      THEN [l.rooms EXCEPT ![i].game.currentPlayerIndex = StepOne(l.rooms[i])]
                      ELSE l.rooms
          /\ disconnectTimers' = IF l.armed THEN disconnectTimers \cup {key}
                                 ELSE disconnectTimers
          /\ gracePending' = IF l.armed THEN [gracePending EXCEPT ![key] = @ + 1]
                             ELSE gracePending
          /\ turnTimers' = tt.timers
          /\ turnPending' = tt.pending
    /\ reply' = Reply("disconnect", Ok)
    /\ UNCHANGED <<rankings, budget>>

\* the setTimeout callback of startTurnTimer fires
TurnTimeout(code, seed) ==
    /\ turnPending[code] > 0
    /\ LET i == RoomIndex(rooms, code)
           fired == [timers |-> [turnTimers EXCEPT ![code] =
                                    IF @ = "live" THEN "dead" ELSE @],
                     pending |-> [turnPending EXCEPT ![code] = @ - 1]]
       IN IF i = 0 \/ rooms[i].game = NULLGAME \/ rooms[i].game.phase # "game"
          THEN /\ turnTimers' = fired.timers
               /\ turnPending' = fired.pending
               /\ UNCHANGED <<rooms, budget>>
          ELSE /\ budget > 0
               /\ rooms' = [rooms EXCEPT ![i] = timeoutTurn(rooms[i], seed)]
               /\ LET tt == startTurnTimer(fired, code)
                  IN turnTimers' = tt.timers /\ turnPending' = tt.pending
               /\ budget' = budget - 1
    /\ reply' = Reply("turnTimeout", Ok)
    /\ UNCHANGED <<closed, disconnectTimers, gracePending, rankings>>

\* the setTimeout callback of leaveRoom fires
GraceTimeout(key) ==
    /\ gracePending[key] > 0
    /\ gracePending' = [gracePending EXCEPT ![key] = @ - 1]
    /\ disconnectTimers' = disconnectTimers \ {key}
    /\ reply' = Reply("graceTimeout", Ok)
    /\ UNCHANGED <<rooms, closed, turnTimers, turnPending, rankings, budget>>

\* what clients send
CardIndexes == 0 .. HAND_SIZE
ChosenColors == {"", "red", "blue"}
Nicks == {"ann", "bob"}

\* ids of the player records of all rooms
Seated == UNION {{rooms[i].players[k].id : k \in 1..Len(rooms[i].players)} : i \in 1..Len(rooms)}

\* ids of the players whose turn it is
CurrentIds ==
    {rooms[i].players[rooms[i].game.currentPlayerIndex + 1].id :
        i \in {j \in 1..Len(rooms) : rooms[j].game # NULLGAME}}

\* Play: "s1" creates, "s2" and "s3" join, and the seated players send the intents
\* the server accepts
NextPlay ==
    \/ RoomCreate("s1", "ann", "ABC234")
    \/ RoomJoin("s2", "ABC234", "bob") /\ reply'.ok
    \/ RoomJoin("s3", "ABC234", "ann") /\ reply'.ok
    \/ \E seed \in Seeds : GameStart("s1", "ABC234", seed) /\ reply'.ok
    \/ \E s \in CurrentIds, i \in CardIndexes, col \in ChosenColors, seed \in DrawSeeds(rooms) :
          GamePlayCard(s, "ABC234", i, col, seed) /\ reply'.ok
    \/ \E s \in CurrentIds, seed \in DrawSeeds(rooms) :
          GameDrawCard(s, "ABC234", seed) /\ reply'.ok
    \/ \E s \in Seated : GameCallClash(s, "ABC234") /\ reply'.ok
    \/ \E t \in Seated, seed \in DrawSeeds(rooms) :
          GameAccuseClash("s1", "ABC234", t, seed) /\ reply'.ok
    \/ \E c \in Codes, seed \in DrawSeeds(rooms) : TurnTimeout(c, seed)

SpecPlay == InitWith(PlayMoves) /\ [][NextPlay]_vars

\* ids of the player records of the rooms that have left the lobby
SeatedInGame ==
    UNION {{rooms[i].players[k].id : k \in 1..Len(rooms[i].players)} :
              i \in {j \in 1..Len(rooms) : rooms[j].phase # "lobby"}}

\* ids of the player records marked disconnected
Offline ==
    UNION {{rooms[i].players[k].id : k \in {j \in 1..Len(rooms[i].players) :
                                                ~rooms[i].players[j].isConnected}} :
              i \in 1..Len(rooms)}

\* Session: during a short game players drop out and come back under the new
\* connection id "s4"
NextSession ==
    \/ RoomCreate("s1", "ann", "ABC234")
    \/ \E n \in Nicks : RoomJoin("s2", "ABC234", n) /\ reply'.ok
    \/ RoomJoin("s3", "ABC234", "ann") /\ reply'.ok
    \/ GameStart("s1", "ABC234", 1) /\ reply'.ok
    \/ \E s \in CurrentIds, i \in {0, 1} :
          GamePlayCard(s, "ABC234", i, "blue", 0) /\ reply'.ok
    \/ \E o \in Offline \cup {NoSocket}, n \in Nicks :
          Offline # {} /\ RoomReconnect("s4", "ABC234", o, n) /\ reply'.ok
    \/ \E s \in SeatedInGame : Cardinality(closed) < MaxDisconnects /\ Disconnect(s)
    \/ \E c \in Codes : TurnTimeout(c, 0)
    \/ \E k \in Keys : GraceTimeout(k)

SpecSession == InitWith(SessionMoves) /\ [][NextSession]_vars

\* the host ids of the rooms
Hosts == {rooms[i].hostId : i \in 1..Len(rooms)}

\* Lobby: "s1" opens room ABC234 and "s2" room XYZ789; room ABC234 is filled,
\* started, reset and left, connections ask to join under any spelling of its code,
\* and "s5" comes as the new connection of a reconnect
NextLobby ==
    \/ RoomCreate("s1", "ann", "ABC234")
    \/ RoomCreate("s2", "bob", "XYZ789")
    \/ \E s \in {"s2", "s3", "s4"}, code \in {"ABC234", "abc234", "ZZZZZZ"} :
          RoomJoin(s, code, "bob")
    \/ \E o \in Seated \cup {NoSocket} : RoomReconnect("s5", "ABC234", o, "bob") /\ reply'.ok
    \/ \E s \in Hosts, t \in Seated : RoomKick(s, "ABC234", t) /\ reply'.ok
    \/ \E s \in Hosts : GameStart(s, "ABC234", 0) /\ reply'.ok
    \/ \E s \in Hosts : GameRematch(s, "ABC234") /\ reply'.ok
    \/ \E s \in Seated : Cardinality(closed) < LobbyDisconnects /\ Disconnect(s)

SpecLobby == InitWith(0) /\ [][NextLobby]_vars

\* Reject: two players start a game, and three connections (one of them seated
\* nowhere) send every playCard and drawCard intent, accepted or not
NextReject ==
    \/ RoomCreate("s1", "ann", "ABC234")
    \/ RoomJoin("s2", "ABC234", "bob") /\ reply'.ok
    \/ \E seed \in Seeds : GameStart("s1", "ABC234", seed) /\ reply'.ok
    \/ \E s \in {"s1", "s2", "s3"}, code \in CodeInputs, i \in (-1) .. HAND_SIZE,
          col \in ChosenColors, seed \in DrawSeeds(rooms) :
          GamePlayCard(s, code, i, col, seed)
    \/ \E s \in {"s1", "s2", "s3"}, code \in CodeInputs, seed \in DrawSeeds(rooms) :
          GameDrawCard(s, code, seed)
    \/ \E c \in Codes, seed \in DrawSeeds(rooms) : TurnTimeout(c, seed)

SpecReject == InitWith(RejectMoves) /\ [][NextReject]_vars

\* Reconnect: a room of up to three players, two of whom may share the nickname
\* "ann", is started, reset and left, and the new connection "s4" asks to
\* reconnect under every previous id and nickname, accepted or not
NextReconnect ==
    \/ RoomCreate("s1", "ann", "ABC234")
    \/ \E n \in Nicks : RoomJoin("s2", "ABC234", n) /\ reply'.ok
    \/ RoomJoin("s3", "ABC234", "bartholomew-the-second") /\ reply'.ok
    \/ \E s \in Hosts : GameStart(s, "ABC234", 1) /\ reply'.ok
    \/ \E s \in Hosts : GameRematch(s, "ABC234") /\ reply'.ok
    \/ \E o \in Seated \cup {NoSocket}, n \in Nicks \cup {""} :
          "s4" \notin Seated /\ RoomReconnect("s4", "ABC234", o, n)
    \/ \E s \in Seated : Cardinality(closed) < ReconnectDisconnects /\ Disconnect(s)
    \/ \E k \in Keys : GraceTimeout(k)

SpecReconnect == InitWith(0) /\ [][NextReconnect]_vars

\* Clock: two players start a game, play, draw, let the turn timer fire and drop
\* out, and the host asks for a rematch at any time and starts again
NextClock ==
    \/ RoomCreate("s1", "ann", "ABC234")
    \/ RoomJoin("s2", "ABC234", "bob") /\ reply'.ok
    \/ \E s \in Hosts, seed \in Seeds : GameStart(s, "ABC234", seed) /\ reply'.ok
    \/ \E s \in CurrentIds, i \in CardIndexes, seed \in DrawSeeds(rooms) :
          GamePlayCard(s, "ABC234", i, "blue", seed) /\ reply'.ok
    \/ \E s \in CurrentIds, seed \in DrawSeeds(rooms) :
          GameDrawCard(s, "ABC234", seed) /\ reply'.ok
    \/ \E s \in Hosts : GameRematch(s, "ABC234") /\ reply'.ok
    \/ \E s \in Seated : Cardinality(closed) < ClockDisconnects /\ Disconnect(s)
    \/ \E c \in Codes, seed \in DrawSeeds(rooms) : TurnTimeout(c, seed)

SpecClock == InitWith(ClockMoves) /\ [][NextClock]_vars

\* Draw: the players of a game only draw, let the turn timer fire or drop out,
\* until the draw pile is empty with nothing to reshuffle
NextDraw ==
    \/ RoomCreate("s1", "ann", "ABC234")
    \/ RoomJoin("s2", "ABC234", "bob") /\ reply'.ok
    \/ RoomJoin("s3", "ABC234", "ann") /\ reply'.ok
    \/ \E seed \in Seeds : GameStart("s1", "ABC234", seed) /\ reply'.ok
    \/ \E s \in CurrentIds, seed \in DrawSeeds(rooms) :
          GameDrawCard(s, "ABC234", seed) /\ reply'.ok
    \/ \E s \in SeatedInGame : Cardinality(closed) < DrawDisconnects /\ Disconnect(s)
    \/ \E c \in Codes, seed \in DrawSeeds(rooms) : TurnTimeout(c, seed)

SpecDraw == InitWith(DrawMoves) /\ [][NextDraw]_vars

---------------------------------------------------------------------------
(* Properties *)

\* the rooms that hold a game
Games == {i \in 1..Len(rooms) : rooms[i].game # NULLGAME}

RECURSIVE SumHands(_, _)
SumHands(players, k) ==
    IF k = 0 THEN 0 ELSE Len(players[k].hand) + SumHands(players, k - 1)

CardCount(room) ==
    Len(room.game.drawPile) + Len(room.game.discardPile)
        + SumHands(room.players, Len(room.players))

\* C1: card conservation. The deck createDeck builds has 108 cards, and in every
\* state in which a game exists the draw pile, the discard pile and the hands
\* together hold exactly the cards of the deck the game was dealt from (DeckSize
\* for the scaled deck, 108 for the standard one).
CardConservation ==
    /\ Len(StandardDeck) = 108
    /\ \A i \in Games : CardCount(rooms[i]) = DeckSize

\* C1 witness: a game in which a wild card was played and then, a draw having
\* found the draw pile empty, the discard pile was reshuffled down to its top card
ReshuffledGame ==
    \E i \in Games :
        /\ rooms[i].phase = "game"
        /\ Len(rooms[i].game.discardPile) = 1
        /\ topCard(rooms[i].game).type \in WILD_TYPES
        /\ CardCount(rooms[i]) = DeckSize

\* the step takes room i from phase game to phase results
WinStep(i) ==
    /\ i \in Games /\ i <= Len(rooms')
    /\ rooms[i].phase = "game" /\ rooms'[i].phase = "results"

\* C2: a play that empties the hand ends the game at once with the playing player
\* as winner and resolves no effect: currentPlayerIndex, direction and currentColor
\* keep their pre-play values, the draw pile and every other hand are untouched, and
\* the only card that moves is the played one, onto the discard pile.
WinResolvesNoEffect ==
    [][\A i \in 1..Len(rooms) : WinStep(i) =>
          LET g == rooms[i].game
              h == rooms'[i].game
              k == g.currentPlayerIndex + 1
          IN /\ rooms'[i].players[k].hand = <<>>
             /\ Len(rooms[i].players[k].hand) = 1
             /\ h.winner = rooms[i].players[k].nickname
             /\ h.phase = "results"
             /\ h.currentPlayerIndex = g.currentPlayerIndex
             /\ h.direction = g.direction
             /\ h.currentColor = g.currentColor
             /\ h.drawPile = g.drawPile
             /\ h.discardPile = Append(g.discardPile, rooms[i].players[k].hand[1])
             /\ Len(rooms'[i].players) = Len(rooms[i].players)
             /\ \A j \in 1..Len(rooms[i].players) :
                   j # k => rooms'[i].players[j].hand = rooms[i].players[j].hand]_vars

\* C2 witness: a game won on a card whose effect would have made the next player draw
WonOnDrawCard ==
    \E i \in Games :
        /\ rooms[i].phase = "results"
        /\ reply = Reply("game:playCard", Ok)
        /\ topCard(rooms[i].game).type \in {"draw_two", "wild_draw_four"}
        /\ rooms[i].players[rooms[i].game.currentPlayerIndex + 1].hand = <<>>

\* among the losers, seat j is ranked before seat k: fewer cards, or as many and
\* the earlier seat
RankedBefore(room, j, k) ==
    \/ Len(room.players[j].hand) < Len(room.players[k].hand)
    \/ Len(room.players[j].hand) = Len(room.players[k].hand) /\ j < k

\* the ranking list of a room won by seat w (1-based): every seat once
SeatRankings(room, w) ==
    LET losers == (1..Len(room.players)) \ {w}
        place(k) == 2 + Cardinality({j \in losers : RankedBefore(room, j, k)})
        seat(r) == IF r = 1 THEN w ELSE CHOOSE k \in losers : place(k) = r
    IN [r \in 1..Len(room.players) |->
           [rank |-> r, id |-> room.players[seat(r)].id,
            nickname |-> room.players[seat(r)].nickname,
            cardCount |-> Len(room.players[seat(r)].hand)]]

\* C3: on a winning play the room is in phase results with the playing player as
\* winner, and the ranking list emitted holds every player of the game exactly
\* once: the winner at rank 1 with 0 cards, then the others at ranks 2..n by
\* ascending hand size, equal hands in seat order.
RankingsCoverEveryPlayer ==
    [][\A i \in 1..Len(rooms) : WinStep(i) =>
          LET k == rooms[i].game.currentPlayerIndex + 1
          IN /\ rooms'[i].game.phase = "results"
             /\ rooms'[i].game.winner = rooms[i].players[k].nickname
             /\ rankings' = SeatRankings(rooms'[i], k)
             /\ rankings'[1].cardCount = 0]_vars

\* the errors of a rejected playCard or drawCard
PlayErrors ==
    {"No active game.", "Not your turn.", "Invalid card.", "Invalid move.",
     "Must choose a color for wild card."}

\* the step is a playCard or drawCard intent that was rejected
RejectedIntent ==
    /\ reply'.op \in {"game:playCard", "game:drawCard"}
    /\ ~reply'.ok

\* what room i answers to a playCard that is out of turn, names no card of the
\* hand, names a card that is no legal play, or lacks the color of a wild
RejectsBadPlay(i, s, cardIndex, chosenColor) ==
    LET room == rooms[i]
        player == room.players[room.game.currentPlayerIndex + 1]
        inHand == cardIndex >= 0 /\ cardIndex < Len(player.hand)
        card == player.hand[cardIndex + 1]
        p == playCard(room, s, cardIndex, chosenColor, 0)
        expected ==
            IF player.id # s THEN "Not your turn."
            ELSE IF ~inHand THEN "Invalid card."
            ELSE IF ~isValidPlay(card, topCard(room.game), room.game.currentColor)
                 THEN "Invalid move."
            ELSE IF card.type \in WILD_TYPES /\ chosenColor = ""
                 THEN "Must choose a color for wild card."
            ELSE ""
    IN IF expected = "" THEN p.res.ok
       ELSE ~p.res.ok /\ p.res.error = expected /\ p.room = room

\* C4: a rejected playCard or drawCard (no game in phase game, not the current
\* seat's occupant, no such card in the hand, not a legal play, a wild without a
\* color) is answered with an error and changes no hand, pile, currentPlayerIndex,
\* direction, currentColor, clash flag, phase or timer; and each of the four bad
\* plays is rejected with its own error in every game state.
RejectedIntentChangesNothing ==
    [][/\ RejectedIntent =>
             /\ reply'.error \in PlayErrors
             /\ UNCHANGED <<rooms, closed, turnTimers, turnPending, disconnectTimers,
                            gracePending, rankings, budget>>
       /\ \A i \in 1..Len(rooms) : rooms[i].phase = "game" =>
             /\ \A s \in {"s1", "s2", "s3"}, cardIndex \in (-1) .. (HAND_SIZE + 4),
                   col \in ChosenColors :
                   RejectsBadPlay(i, s, cardIndex, col)
             /\ \A s \in {"s1", "s2", "s3"} :
                   rooms[i].players[rooms[i].game.currentPlayerIndex + 1].id # s =>
                       drawCard(rooms[i], s, 0) = [room |-> rooms[i],
                                                   res |-> Err("Not your turn.")]]_vars

\* C4 witness: in a running game the current player has just been refused a wild
\* played without a color
WildRefused ==
    /\ reply = Reply("game:playCard", Err("Must choose a color for wild card."))
    /\ \E i \in Games : rooms[i].phase = "game" /\ budget < RejectMoves

\* the ids of the roster of a room
Ids(room) == {room.players[k].id : k \in 1..Len(room.players)}

\* C5: joinRoom is idempotent for a connection id already in the roster of a
\* lobby room, the room being full or not: it answers with success and leaves the
\* registry as it was.
JoinIsIdempotent ==
    \A i \in 1..Len(rooms) : \A s \in Ids(rooms[i]) :
        rooms[i].phase = "lobby" =>
            LET j == joinRoom(rooms, s, rooms[i].code, "bob")
            IN j.res.ok /\ j.rooms = rooms

\* what joinRoom answers to connection s asking for the room spelled code
JoinAnswer(s, code) ==
    LET j == joinRoom(rooms, s, code, "bob")
        i == RoomIndex(rooms, toUpperCase(code))
    IN IF i = 0 THEN j = [rooms |-> rooms, res |-> Err("Room not found.")]
       ELSE IF rooms[i].phase # "lobby"
            THEN j = [rooms |-> rooms, res |-> Err("Game already in progress.")]
       ELSE IF Len(rooms[i].players) >= MAX_PLAYERS
            THEN j = [rooms |-> rooms, res |-> Err("Room is full.")]
       ELSE j.res.ok

\* C6: whatever createRoom, joinRoom, reconnect, leave, kick, startGame and rematch
\* have done, no roster holds more than MAX_PLAYERS players; a join is refused with
\* RoomNotFound for an unknown code, GameInProgress for a room out of the lobby and
\* RoomFull for a full lobby room, and a refused join leaves every roster as it was.
RosterBounded ==
    [][/\ \A i \in 1..Len(rooms) : Len(rooms[i].players) <= MAX_PLAYERS
       /\ \A i \in 1..Len(rooms') : Len(rooms'[i].players) <= MAX_PLAYERS
       /\ \A s \in Sockets, code \in CodeInputs : JoinAnswer(s, code)
       /\ (reply'.op = "room:join" /\ ~reply'.ok) =>
             /\ rooms' = rooms
             /\ reply'.error \in {"Room not found.", "Game already in progress.",
                                   "Room is full."}]_vars

\* C6 witness: a connection has just been refused by a full lobby room
FullRoomRefused ==
    /\ reply = Reply("room:join", Err("Room is full."))
    /\ \E i \in 1..Len(rooms) :
          rooms[i].phase = "lobby" /\ Len(rooms[i].players) = MAX_PLAYERS

\* the step handles the disconnect of connection s
Leaves(s) == s \notin closed /\ closed' = closed \cup {s} /\ reply'.op = "disconnect"

\* C7: when a member of a lobby room leaves, exactly that player is taken out of
\* the roster; a host who leaves others behind hands the room to the player now
\* first in the roster; and a room left empty is deleted, its code resolving no more.
LeaveInLobbyRemoves ==
    [][\A s \in Sockets : Leaves(s) =>
          \A i \in 1..Len(rooms) :
              (rooms[i].phase = "lobby" /\ s \in Ids(rooms[i])) =>
                  LET room == rooms[i]
                      rest == RemoveAt(room.players,
                                       FindIndex(room.players, LAMBDA p : p.id = s))
                      j == getRoom(rooms', room.code)
                  IN IF rest = <<>> THEN j = 0
                     ELSE /\ j # 0
                          /\ rooms'[j] = [room EXCEPT
                                             !.players = rest,
                                             !.hostId = IF room.hostId = s
                                                        THEN rest[1].id ELSE @]]_vars

\* C8: when a member of a room in phase game or results leaves, the room stays,
\* leaveRoom changes nothing of it but that player's isConnected, which becomes
\* false (roster, seat order, hands and currentPlayerIndex are as before), and the
\* grace timer keyed by the room code and that connection id is armed.
LeaveInGameKeepsSeat ==
    [][\A s \in Sockets : Leaves(s) =>
          \A i \in 1..Len(rooms) :
              (rooms[i].phase \in {"game", "results"} /\ s \in Ids(rooms[i])) =>
                  LET room == rooms[i]
                      k == FindIndex(room.players, LAMBDA p : p.id = s)
                      l == leaveRoom(rooms, s)
                      key == <<room.code, s>>
                  IN /\ l.kind = "room" /\ l.armed /\ l.code = room.code
                     /\ Len(l.rooms) = Len(rooms)
                     /\ l.rooms[i] = [room EXCEPT !.players[k].isConnected = FALSE]
                     /\ Len(rooms') = Len(rooms)
                     /\ rooms'[i].players = l.rooms[i].players
                     /\ key \in disconnectTimers'
                     /\ gracePending'[key] = gracePending[key] + 1]_vars

\* what reconnectPlayer does for the player of seat k of room i coming back under
\* the new connection id s with its nickname and the previous id o: the seat is
\* connected again under the new id with the hand it had, and the grace timer
\* looked up is the one armed when the player left
SeatRestored(i, k, o, s) ==
    LET p == rooms[i].players[k]
        r == reconnectPlayer(rooms, rooms[i].code, o, s, p.nickname)
    IN /\ r.res.ok
       /\ Len(r.rooms) = Len(rooms)
       /\ Len(r.rooms[i].players) = Len(rooms[i].players)
       /\ r.rooms[i].players[k] = [p EXCEPT !.id = s, !.isConnected = TRUE]
       /\ r.cancel = <<rooms[i].code, p.id>>

\* C9: a player who dropped out of a running game and comes back with the same
\* nickname under a new connection id while the grace timer is pending finds the
\* same seat connected again, under the new id and with the same hand; the grace
\* timer of that player is no longer pending, and a timer cancelled by a reconnect
\* never fires.
ReconnectRestoresSeat ==
    [][/\ \A i \in 1..Len(rooms) : \A k \in 1..Len(rooms[i].players) :
             (/\ rooms[i].phase = "game"
              /\ ~rooms[i].players[k].isConnected
              /\ <<rooms[i].code, rooms[i].players[k].id>> \in disconnectTimers) =>
                 \A o \in {rooms[i].players[k].id, NoSocket} : SeatRestored(i, k, o, "s5")
       /\ (reply'.op = "room:reconnect" /\ reply'.ok) =>
             \A key \in disconnectTimers \ disconnectTimers' : gracePending'[key] = 0
       /\ reply'.op = "graceTimeout" =>
             \E key \in Keys : gracePending[key] > 0 /\ gracePending'[key] < gracePending[key]]_vars

\* C10: the firing of a grace timer only notifies: it changes no room (no player
\* record, roster, phase or game state) and no turn timer, takes its own key out
\* of disconnectTimers and arms nothing; and a player whose grace timer has fired
\* still comes back by nickname to the same seat, connected again.
GraceFiringOnlyNotifies ==
    [][/\ reply'.op = "graceTimeout" =>
             /\ UNCHANGED <<rooms, closed, turnTimers, turnPending, rankings, budget>>
             /\ \E key \in Keys :
                   /\ disconnectTimers' = disconnectTimers \ {key}
                   /\ gracePending' = [gracePending EXCEPT ![key] = @ - 1]
       /\ \A i \in 1..Len(rooms) : \A k \in 1..Len(rooms[i].players) :
             (/\ rooms[i].phase \in {"game", "results"}
              /\ ~rooms[i].players[k].isConnected
              /\ <<rooms[i].code, rooms[i].players[k].id>> \notin disconnectTimers) =>
                 SeatRestored(i, k, NoSocket, "s5")]_vars

\* the seats of a room whose record has the previous id o
SeatsById(room, o) == {k \in 1..Len(room.players) : room.players[k].id = o}

\* the seats of a room marked disconnected whose nickname is the one sent
SeatsByNickname(room, n) ==
    {k \in 1..Len(room.players) :
        ~room.players[k].isConnected /\ room.players[k].nickname = trim(n)}

\* the seats a reconnect with previous id o and nickname n may resolve to: those
\* of the previous id, and only when there is none those of the nickname
Candidates(room, o, n) ==
    IF SeatsById(room, o) # {} THEN SeatsById(room, o) ELSE SeatsByNickname(room, n)

\* what reconnectPlayer answers to connection s coming to room i with previous id
\* o and nickname n
ResolvesInOrder(i, o, n, s) ==
    LET room == rooms[i]
        r == reconnectPlayer(rooms, room.code, o, s, n)
    IN IF Candidates(room, o, n) # {}
       THEN /\ r.res.ok
            /\ Len(r.rooms) = Len(rooms)
            /\ Len(r.rooms[i].players) = Len(room.players)
            /\ \E k \in Candidates(room, o, n) :
                  r.rooms[i].players[k] = [room.players[k] EXCEPT !.id = s,
                                                                  !.isConnected = TRUE]
       ELSE IF room.phase # "lobby"
            THEN r.res = Err("Player not found in this game.") /\ r.rooms = rooms
       ELSE IF Len(room.players) >= MAX_PLAYERS
            THEN r.res = Err("Room is full.") /\ r.rooms = rooms
       ELSE IF s \in Ids(room) THEN r.res.ok /\ r.rooms = rooms
       ELSE /\ r.res.ok
            /\ r.rooms = [rooms EXCEPT ![i].players = Append(@, makePlayer(s, n))]

\* C11: a reconnect resolves the player by the previous connection id and, only
\* when no record has that id, by the nickname among the players marked
\* disconnected; when neither matches, a lobby room takes the connection as a
\* fresh join (appended unless the room is full) and a room out of the lobby
\* answers "Player not found in this game." and is left as it was.
ReconnectLookupOrder ==
    \A i \in 1..Len(rooms) :
        \A o \in Sockets \cup {NoSocket}, n \in NickInputs, s \in {"s4", "s5"} :
            ResolvesInOrder(i, o, n, s)

\* C11 witness: a running game with a disconnected player has just refused a
\* reconnect that named neither a previous id nor a nickname of a disconnected
\* player of the room
ReconnectRefusedInGame ==
    /\ reply = Reply("room:reconnect", Err("Player not found in this game."))
    /\ \E i \in 1..Len(rooms) :
          /\ rooms[i].phase = "game"
          /\ \E k \in 1..Len(rooms[i].players) : ~rooms[i].players[k].isConnected

\* the seat reconnectPlayer matches: the first of the candidates in seat order
MatchedSeat(room, o, n) ==
    CHOOSE k \in Candidates(room, o, n) : \A j \in Candidates(room, o, n) : k <= j

\* C12: after a successful reconnect whose matched player was the host of the
\* room, matched by the previous id or by the nickname and whatever previous id
\* was sent, hostId is that player's new connection id.
HostFollowsReconnect ==
    \A i \in 1..Len(rooms) :
        \A o \in Sockets \cup {NoSocket}, n \in NickInputs, s \in {"s4", "s5"} :
            LET room == rooms[i]
                r == reconnectPlayer(rooms, room.code, o, s, n)
            IN (/\ Candidates(room, o, n) # {}
                /\ r.res.ok
                /\ room.players[MatchedSeat(room, o, n)].id = room.hostId) =>
                   r.rooms[i].hostId = s

\* C13: a successful reconnect remaps in place exactly one player record, the
\* matched one: it gets the new id and is connected, and every other record of the
\* roster (id, isConnected, hand, seat) is as before, also when two players of the
\* room share a nickname. Room.players and game.players are one sequence of records.
ReconnectRemapsOneRecord ==
    \A i \in 1..Len(rooms) :
        \A o \in Sockets \cup {NoSocket}, n \in NickInputs, s \in {"s4", "s5"} :
            LET room == rooms[i]
                r == reconnectPlayer(rooms, room.code, o, s, n)
                m == MatchedSeat(room, o, n)
            IN (Candidates(room, o, n) # {} /\ r.res.ok) =>
                  /\ Len(r.rooms[i].players) = Len(room.players)
                  /\ r.rooms[i].players[m] = [room.players[m] EXCEPT !.id = s,
                                                                      !.isConnected = TRUE]
                  /\ \A j \in 1..Len(room.players) :
                        j # m => r.rooms[i].players[j] = room.players[j]

\* C14: whenever a room is in phase game exactly one turn timer is armed for its
\* code: no code ever has two pending timeouts (arming cancels the previous timer
\* first), the handle kept in turnTimers is the pending one, and after a timeout
\* firing, a play, a draw or the disconnect of the current player that leaves the
\* room in game the timer of the room is pending again.
ClockNeverStops ==
    /\ \A c \in Codes :
          /\ turnPending[c] <= 1
          /\ turnPending[c] = 1 <=> turnTimers[c] = "live"
    /\ \A i \in 1..Len(rooms) :
          rooms[i].phase = "game" =>
              turnTimers[rooms[i].code] = "live" /\ turnPending[rooms[i].code] = 1

\* C14 witness: the turn timer has fired in a game that a player has dropped out
\* of, and the room, still in game, has its timer pending
TimerRearmedAfterFiring ==
    /\ reply.op = "turnTimeout"
    /\ \E i \in 1..Len(rooms) :
          /\ rooms[i].phase = "game"
          /\ \E k \in 1..Len(rooms[i].players) : ~rooms[i].players[k].isConnected
          /\ turnPending[rooms[i].code] = 1

\* C15: the turn timer is cancelled whenever a room leaves phase game: in every
\* state, a room code whose room is in lobby or results, or has no room any more,
\* has no pending turn timer.
NoTimerOutsideGame ==
    \A c \in Codes :
        (RoomIndex(rooms, c) = 0 \/ rooms[RoomIndex(rooms, c)].phase # "game") =>
            turnPending[c] = 0

\* the seat one step from the current one in the direction of play
OneSeatOn(room) ==
    (room.game.currentPlayerIndex + room.game.direction) % Len(room.players)

\* the rooms in phase game
Running == {i \in Games : rooms[i].phase = "game"}

\* a draw finds neither a card in the draw pile nor a discard pile to reshuffle
NothingToDraw(room) ==
    Len(room.game.drawPile) = 0 /\ Len(room.game.discardPile) <= 1

\* r is room with the turn moved one seat on: direction, currentColor and the
\* records of all seats but the current one are those of room
TurnPassed(room, r) ==
    /\ r.game.currentPlayerIndex = OneSeatOn(room)
    /\ r.game.direction = room.game.direction
    /\ r.game.currentColor = room.game.currentColor
    /\ r.phase = "game" /\ r.game.phase = "game"
    /\ Len(r.players) = Len(room.players)
    /\ \A j \in 1..Len(room.players) :
          j # room.game.currentPlayerIndex + 1 => r.players[j] = room.players[j]

\* r is room with nothing moved: the hands and the piles are those of room
NoCardMoved(room, r) ==
    /\ r.players = room.players
    /\ r.game.drawPile = room.game.drawPile
    /\ r.game.discardPile = room.game.discardPile

\* in r the current player of room holds one card more, behind the cards held
\* before, and no card is lost
OneCardDrawn(room, r) ==
    LET k == room.game.currentPlayerIndex + 1 IN
    /\ Len(r.players[k].hand) = Len(room.players[k].hand) + 1
    /\ SubSeq(r.players[k].hand, 1, Len(room.players[k].hand)) = room.players[k].hand
    /\ CardCount(r) = CardCount(room)

\* C16 as stated: a turn-timeout firing in phase game moves the turn exactly one
\* seat in direction and leaves direction, currentColor and every other hand as
\* they were; for a disconnected occupant no hand or pile changes, for a
\* connected one the hand grows by exactly one card.
TimeoutDrawsOneCard ==
    \A i \in Running : \A seed \in Seeds :
        LET room == rooms[i]
            r == timeoutTurn(room, seed)
        IN /\ TurnPassed(room, r)
           /\ IF ~room.players[room.game.currentPlayerIndex + 1].isConnected
              THEN NoCardMoved(room, r)
              ELSE OneCardDrawn(room, r)

\* C16 amended: as above, but a connected occupant's hand grows by one card only
\* when there is a card to draw; when the draw pile is empty and the discard pile
\* holds at most one card, no hand or pile changes and the turn still moves one
\* seat on. Every firing for a room in game is such a step.
TimeoutAdvancesOneSeat ==
    [][/\ \A i \in Running : \A seed \in Seeds :
             LET room == rooms[i]
                 r == timeoutTurn(room, seed)
             IN /\ TurnPassed(room, r)
                /\ IF ~room.players[room.game.currentPlayerIndex + 1].isConnected
                   THEN NoCardMoved(room, r)
                   ELSE IF NothingToDraw(room) THEN NoCardMoved(room, r)
                   ELSE OneCardDrawn(room, r)
       /\ reply'.op = "turnTimeout" =>
             \A i \in Running :
                 \E seed \in Seeds : rooms' = [rooms EXCEPT ![i] = timeoutTurn(rooms[i], seed)]
      ]_vars

\* C16 witness: with every player connected, the turn timer has fired for a game
\* whose draw pile was empty under a discard pile of one card, and nobody drew
TimeoutFoundNothingToDraw ==
    /\ reply.op = "turnTimeout"
    /\ closed = {}
    /\ \E i \in Running :
          /\ NothingToDraw(rooms[i])
          /\ DrawMoves - budget
                > SumHands(rooms[i].players, Len(rooms[i].players))
                    - Len(rooms[i].players) * HAND_SIZE

\* the step keeps the phase of room i, or moves it along the life cycle: from
\* lobby to game by a game:start of the host with at least two players, from game
\* to results by a play, from results to lobby by a rematch of the host
LifecycleStep(i, j) ==
    \/ rooms'[j].phase = rooms[i].phase
    \/ /\ rooms[i].phase = "lobby" /\ rooms'[j].phase = "game"
       /\ reply'.op = "game:start" /\ Len(rooms[i].players) >= 2
    \/ /\ rooms[i].phase = "game" /\ rooms'[j].phase = "results"
       /\ reply'.op = "game:playCard"
       /\ rooms'[j].players[rooms[i].game.currentPlayerIndex + 1].hand = <<>>
    \/ /\ rooms[i].phase = "results" /\ rooms'[j].phase = "lobby"
       /\ reply'.op = "game:rematch"

\* C17: the phase of a room changes only from lobby to game (startGame by the
\* host, at least two players), from game to results (a winning play) and from
\* results to lobby (rematch by the host); no intent and no timer firing takes a
\* room from game straight to lobby or from lobby or results anywhere else; and a
\* room is destroyed only while in lobby.
PhaseLifecycle ==
    [][\A i \in 1..Len(rooms) :
          LET j == RoomIndex(rooms', rooms[i].code)
          IN IF j = 0 THEN rooms[i].phase = "lobby"
             ELSE LifecycleStep(i, j)]_vars

\* the number of wild cards lying on top of a pile
RECURSIVE WildsOnTop(_)
WildsOnTop(pile) ==
    IF pile = <<>> \/ Last(pile).type \notin WILD_TYPES THEN 0
    ELSE 1 + WildsOnTop(Pop(pile))

\* what is left of the shuffled deck once n hands have been dealt from its top
AfterHands(deck, n) == SubSeq(deck, 1, Len(deck) - n * HAND_SIZE)

\* room has been dealt from deck: the hands come off the top in player order, the
\* first card under them that is no wild is the starting discard, and the wilds
\* passed over lie at the bottom of the draw pile
DealtFrom(room, deck) ==
    LET n == Len(room.players)
        rest == AfterHands(deck, n)
        w == WildsOnTop(rest)
    IN /\ \A k \in 1..n : \A j \in 1..HAND_SIZE :
             room.players[k].hand[j] = deck[Len(deck) - (k - 1) * HAND_SIZE - (j - 1)]
       /\ room.game.discardPile = <<rest[Len(rest) - w]>>
       /\ room.game.drawPile = SubSeq(rest, Len(rest) - w + 1, Len(rest))
                                 \o SubSeq(rest, 1, Len(rest) - w - 1)

\* the step is a game:start that takes room i out of the lobby
StartStep(i) ==
    /\ reply'.op = "game:start" /\ reply'.ok
    /\ Len(rooms') = Len(rooms)
    /\ rooms[i].phase = "lobby" /\ rooms'[i].phase = "game"

\* the wild cards of a deck
Wilds(deck) == SelectSeq(deck, LAMBDA c : c.type \in WILD_TYPES)

\* C18: after a successful startGame with n players (2 <= n <= maximum) every
\* player holds exactly the hand size in cards (7 in the code), the discard pile
\* holds one card and that card is no wild, currentColor is that card's color, the
\* draw pile holds the deck less the hands less one (108 - 7n - 1 in the code),
\* currentPlayerIndex is 0 and direction is +1; the wilds refused as start card
\* are at the bottom of the draw pile, and the search for a start card ends: the
\* deck of the code keeps more cards than it has wilds after dealing to a full room.
DealIsWellFormed ==
    [][/\ Len(StandardDeck) - StandardHandSize * StandardMaxPlayers
             > Len(Wilds(StandardDeck))
       /\ \A i \in 1..Len(rooms) : StartStep(i) =>
             LET room == rooms'[i]
                 n == Len(room.players)
             IN /\ n >= 2 /\ n <= MAX_PLAYERS
                /\ n = Len(rooms[i].players)
                /\ \A k \in 1..n : Len(room.players[k].hand) = HAND_SIZE
                /\ Len(room.game.discardPile) = 1
                /\ topCard(room.game).type \notin WILD_TYPES
                /\ room.game.currentColor = topCard(room.game).color
                /\ Len(room.game.drawPile) = DeckSize - HAND_SIZE * n - 1
                /\ room.game.currentPlayerIndex = 0
                /\ room.game.direction = 1
                /\ \E seed \in Seeds : DealtFrom(room, shuffle(createDeck, seed))]_vars

\* C18 witness: a game has just been started in a full room, and a wild refused as
\* start card lies at the bottom of its draw pile
WildRefusedAsStartCard ==
    /\ reply = Reply("game:start", Ok)
    /\ \E i \in Running : \E seed \in Seeds :
          /\ Len(rooms[i].players) = MAX_PLAYERS
          /\ DealtFrom(rooms[i], shuffle(createDeck, seed))
          /\ WildsOnTop(AfterHands(shuffle(createDeck, seed), MAX_PLAYERS)) > 0
          /\ rooms[i].game.drawPile[1].type \in WILD_TYPES

\* the draws the code asks for: 1 (draw, timeout), 2 (draw_two, accusation), 4
DrawCounts == {1, 2, 4}

Smaller(a, b) == IF a < b THEN a ELSE b

\* what drawCards does for seat p (0-based) of room asked to draw k cards
DrawOutcome(room, p, k, seed) ==
    LET d == Len(room.game.drawPile)
        c == Len(room.game.discardPile)
        r == drawCards(room, p, k, seed)
        drawn == Len(r.players[p + 1].hand) - Len(room.players[p + 1].hand)
    IN /\ Len(r.players) = Len(room.players)
       /\ \A j \in 1..Len(room.players) : j # p + 1 => r.players[j] = room.players[j]
       /\ SubSeq(r.players[p + 1].hand, 1, Len(room.players[p + 1].hand))
             = room.players[p + 1].hand
       /\ r.game.currentPlayerIndex = room.game.currentPlayerIndex
       /\ IF k <= d
          THEN /\ drawn = k
               /\ r.game.drawPile = SubSeq(room.game.drawPile, 1, d - k)
               /\ r.game.discardPile = room.game.discardPile
          ELSE IF c > 1
          THEN /\ r.game.discardPile = <<Last(room.game.discardPile)>>
               /\ drawn = Smaller(k, d + c - 1)
               /\ Len(r.game.drawPile) + Len(r.game.discardPile) + drawn = d + c
               /\ LET s == shuffle(Pop(room.game.discardPile), seed)
                  IN r.game.drawPile = SubSeq(s, 1, Len(s) - (drawn - d))
          ELSE /\ drawn = d /\ drawn < k
               /\ r.game.drawPile = <<>>
               /\ r.game.discardPile = room.game.discardPile

\* what reshuffleDiscardIntoDraw does when the draw pile of room is empty
ReshuffleOutcome(room, seed) ==
    LET c == Len(room.game.discardPile)
        r == reshuffleDiscardIntoDraw(room, seed)
    IN IF c > 1
       THEN /\ r.game.discardPile = <<Last(room.game.discardPile)>>
            /\ Len(r.game.drawPile) + Len(r.game.discardPile) = c
            /\ r.players = room.players
       ELSE r = room

\* C19: a draw of k cards that finds the draw pile empty reshuffles a discard
\* pile of more than one card into the draw pile, keeps the top of the discard
\* pile as its only card, the two piles holding as many cards after the reshuffle
\* as before, and goes on drawing; with the draw pile empty and at most one card
\* on the discard pile it stops short, fewer than k cards drawn and no error.
DrawReshufflesOrStopsShort ==
    \A i \in Running :
        \A p \in 0..(Len(rooms[i].players) - 1), k \in DrawCounts, seed \in Seeds :
            /\ DrawOutcome(rooms[i], p, k, seed)
            /\ Len(rooms[i].game.drawPile) = 0 => ReshuffleOutcome(rooms[i], seed)

\* C19 witness: the penalty draw of a draw_two or wild_draw_four just played found
\* the draw pile empty, and the discard pile was reshuffled down to the card played
DrewThroughReshuffle ==
    /\ reply = Reply("game:playCard", Ok)
    /\ \E i \in Running :
          /\ Len(rooms[i].game.discardPile) = 1
          /\ topCard(rooms[i].game).type \in {"draw_two", "wild_draw_four"}

\* the cards a penalty card makes the next seat draw
Penalty(card) == IF card.type = "draw_two" THEN 2 ELSE 4

\* what playCard does when the current player of room plays the card at
\* cardIndex, a draw_two or a wild_draw_four that is not the last of the hand
PenaltyOutcome(room, cardIndex, chosenColor, seed) ==
    LET g == room.game
        n == Len(room.players)
        k == g.currentPlayerIndex + 1
        card == room.players[k].hand[cardIndex + 1]
        nxt == ((g.currentPlayerIndex + g.direction) % n) + 1
        p == playCard(room, room.players[k].id, cardIndex, chosenColor, seed)
        q == p.room
        \* the cards a draw can reach once the card played lies on the discard pile
        available == Len(g.drawPile) + Len(g.discardPile)
        gained == Len(q.players[nxt].hand) - Len(room.players[nxt].hand)
    IN /\ p.res.ok /\ ~p.won
       /\ nxt # k
       /\ gained = Smaller(Penalty(card), available)
       /\ SubSeq(q.players[nxt].hand, 1, Len(room.players[nxt].hand))
             = room.players[nxt].hand
       /\ q.game.currentPlayerIndex = (g.currentPlayerIndex + 2 * g.direction) % n
       /\ q.game.direction = g.direction
       /\ q.players[k].hand = RemoveAt(room.players[k].hand, cardIndex + 1)
       /\ Len(q.players) = n
       /\ \A j \in 1..n : j \notin {k, nxt} => q.players[j].hand = room.players[j].hand
       /\ topCard(q.game) = card
       /\ card.type = "wild_draw_four" => q.game.currentColor = chosenColor
       /\ q.phase = "game"

\* C20: for 2 or more players, any current seat and either direction, a
\* draw_two that does not win makes the next seat in direction gain exactly 2
\* cards and a wild_draw_four exactly 4 (as many as can be drawn when fewer are
\* left), the turn lands two seats ahead in direction modulo n, the playing hand
\* loses exactly the card played, and a wild_draw_four sets currentColor to the
\* color chosen.
PenaltySkipsNextSeat ==
    \A i \in Running :
        LET room == rooms[i]
            hand == room.players[room.game.currentPlayerIndex + 1].hand
        IN \A cardIndex \in 0..(Len(hand) - 1), col \in {"red", "blue"}, seed \in Seeds :
              (/\ Len(hand) > 1
               /\ hand[cardIndex + 1].type \in {"draw_two", "wild_draw_four"}
               /\ isValidPlay(hand[cardIndex + 1], topCard(room.game),
                              room.game.currentColor)) =>
                  PenaltyOutcome(room, cardIndex, col, seed)

\* C20 witness: in a game of three running against seat order, a draw_two or
\* wild_draw_four has just been played, the seat before the player's holds more
\* than the cards dealt, and the turn is two seats back
PenaltyPlayedBackwards ==
    /\ reply = Reply("game:playCard", Ok)
    /\ \E i \in Running :
          LET g == rooms[i].game
              n == Len(rooms[i].players)
          IN /\ n = 3 /\ g.direction = -1
             /\ topCard(g).type \in {"draw_two", "wild_draw_four"}
             /\ Len(rooms[i].players[((g.currentPlayerIndex + 1) % n) + 1].hand) > HAND_SIZE

\* room with the turn at seat c (0-based) and the play running in direction d
Seating(room, c, d) ==
    [room EXCEPT !.game.currentPlayerIndex = c, !.game.direction = d]

\* the colors of the deck in play
DeckColors == {COLORS[k] : k \in 1..NumColors}

\* C21: turn arithmetic of applyCardEffect, for every number of players, every
\* starting seat and both directions: a skip lands two seats ahead modulo n in the
\* current direction and keeps the direction; a reverse among two players does
\* exactly what a skip does; a reverse among three or more flips the direction
\* and moves one seat in the new direction.
TurnArithmetic ==
    \A i \in Running :
        LET n == Len(rooms[i].players)
        IN \A c \in 0..(n - 1), d \in {1, -1}, color \in DeckColors :
              LET room == Seating(rooms[i], c, d)
                  skipped == applyCardEffect(room, Card(color, "skip", NoValue), "", 0)
                  reversed == applyCardEffect(room, Card(color, "reverse", NoValue), "", 0)
              IN /\ skipped = Seating(room, (c + 2 * d) % n, d)
                 /\ IF n = 2 THEN reversed = skipped
                    ELSE reversed = Seating(room, (c - d) % n, -d)

\* C21 witness: in a game of three a reverse has just been played from seat 0,
\* the play now runs against seat order and the turn is at the last seat
ReversePlayedByThree ==
    /\ reply = Reply("game:playCard", Ok)
    /\ \E i \in Running :
          /\ Len(rooms[i].players) = 3
          /\ topCard(rooms[i].game).type = "reverse"
          /\ rooms[i].game.direction = -1
          /\ rooms[i].game.currentPlayerIndex = 2

\* the step is an accepted play of a reverse in room i, a game of two that goes on
ReverseByTwo(i) ==
    /\ reply'.op = "game:playCard" /\ reply'.ok
    /\ i \in Running /\ i <= Len(rooms') /\ rooms'[i].phase = "game"
    /\ Len(rooms[i].players) = 2
    /\ rooms'[i].game.discardPile # rooms[i].game.discardPile
    /\ topCard(rooms'[i].game).type = "reverse"

\* C22 as stated: when A, whose turn it is in a game of two, plays a reverse that
\* does not win, the direction is unchanged and the next to act is B.
ReversePassesTurnToOther ==
    [][\A i \in 1..Len(rooms) : ReverseByTwo(i) =>
          /\ rooms'[i].game.direction = rooms[i].game.direction
          /\ rooms'[i].game.currentPlayerIndex
                = 1 - rooms[i].game.currentPlayerIndex]_vars

\* C22 amended: when A, whose turn it is in a game of two, plays a reverse that
\* does not win, the direction is unchanged and the turn stays with A, as after
\* a skip: B is passed over, holds the same hand, and A is the next to act.
ReverseKeepsTurnOfTwo ==
    [][\A i \in 1..Len(rooms) : ReverseByTwo(i) =>
          LET a == rooms[i].game.currentPlayerIndex + 1
              b == 3 - a
          IN /\ rooms'[i].game.direction = rooms[i].game.direction
             /\ rooms'[i].game.currentPlayerIndex = rooms[i].game.currentPlayerIndex
             /\ rooms'[i].players[b] = rooms[i].players[b]
             /\ Len(rooms'[i].players[a].hand) = Len(rooms[i].players[a].hand) - 1
             /\ rooms'[i].players[a].id = rooms[i].players[a].id]_vars

\* C22 witness: in a game of two a reverse has just been played and the game goes on
ReversePlayedByTwo ==
    /\ reply = Reply("game:playCard", Ok)
    /\ \E i \in Running :
          /\ Len(rooms[i].players) = 2
          /\ Len(rooms[i].game.discardPile) >= 2
          /\ topCard(rooms[i].game).type = "reverse"
          /\ rooms[i].game.direction = 1


---------------------------------------------------------------------------
(* Clash call and accusation *)

\* the seats (1-based) of room whose record has the id s
SeatsOf(room, s) == {k \in 1..Len(room.players) : room.players[k].id = s}

\* what callClash does for connection s in room
CallOutcome(room, s) ==
    LET c == callClash(room, s) IN
    /\ c.res.ok <=> \E k \in SeatsOf(room, s) : Len(room.players[k].hand) = 1
    /\ c.res.ok =>
          \E k \in SeatsOf(room, s) :
             c.room = [room EXCEPT !.players[k].clashSafe = TRUE,
                                   !.game.clashCalledBy = room.players[k].nickname]
    /\ ~c.res.ok => c.room = room

\* what playCard does to the clash flags when the current player plays
PlayResetsClash(room, cardIndex, chosenColor, seed) ==
    LET k == room.game.currentPlayerIndex + 1
        p == playCard(room, room.players[k].id, cardIndex, chosenColor, seed)
    IN p.res.ok => /\ ~p.room.players[k].clashSafe
                   /\ p.room.game.clashCalledBy = NULL

\* what accuseClash does against target t in room, penalty being the number of
\* cards the target is to gain
AccuseOutcome(room, t, seed, penalty) ==
    LET a == accuseClash(room, t, seed) IN
    /\ a.res.ok <=> \E k \in SeatsOf(room, t) :
                       Len(room.players[k].hand) = 1 /\ ~room.players[k].clashSafe
    /\ a.res.ok =>
          \E k \in SeatsOf(room, t) :
             /\ Len(a.room.players[k].hand) = 1 + penalty
             /\ SubSeq(a.room.players[k].hand, 1, 1) = room.players[k].hand
             /\ \A j \in 1..Len(room.players) :
                   j # k => a.room.players[j] = room.players[j]
             /\ Len(a.room.players) = Len(room.players)
             /\ a.room.game.currentPlayerIndex = room.game.currentPlayerIndex
             /\ a.room.game.direction = room.game.direction
             /\ a.room.phase = "game"
    /\ ~a.res.ok => a.room = room

\* the cards a draw can reach in room: the draw pile and the discard pile less
\* its top card
Drawable(room) == Len(room.game.drawPile) + Len(room.game.discardPile) - 1

\* C23 as stated: callClash succeeds only for a player holding exactly one card
\* and sets that player's clashSafe and the room's clashCalledBy; every card
\* played resets the player's clashSafe and clears clashCalledBy; accuseClash
\* succeeds exactly against a target holding one card and not flagged safe, and
\* the target then draws 2 cards; a failed call or accusation changes nothing;
\* neither changes currentPlayerIndex or direction, whoever's turn it is.
AccusedDrawsTwo ==
    \A i \in Running :
        /\ \A s \in Sockets : CallOutcome(rooms[i], s)
        /\ \A cardIndex \in CardIndexes, col \in ChosenColors, seed \in Seeds :
              PlayResetsClash(rooms[i], cardIndex, col, seed)
        /\ \A t \in Sockets, seed \in Seeds : AccuseOutcome(rooms[i], t, seed, 2)

\* C23 amended: as above, the target of a successful accusation drawing 2
\* cards, or as many as the draw pile and the discard pile below its top card
\* still hold when that is fewer than 2.
AccusedDrawsUpToTwo ==
    \A i \in Running :
        /\ \A s \in Sockets : CallOutcome(rooms[i], s)
        /\ \A cardIndex \in CardIndexes, col \in ChosenColors, seed \in Seeds :
              PlayResetsClash(rooms[i], cardIndex, col, seed)
        /\ \A t \in Sockets, seed \in Seeds :
              AccuseOutcome(rooms[i], t, seed, Smaller(2, Drawable(rooms[i])))

\* C23 witness: an accusation sent by a player who is not on turn was accepted
\* against a player who is not on turn either and now holds the penalty cards
AccusedOutOfTurn ==
    /\ reply = Reply("game:accuseClash", Ok)
    /\ \E i \in Running :
          LET room == rooms[i]
              cur == room.players[room.game.currentPlayerIndex + 1]
          IN /\ cur.id # "s1"
             /\ \E k \in 1..Len(room.players) :
                   /\ k # room.game.currentPlayerIndex + 1
                   /\ Len(room.players[k].hand) = 3
                   /\ room.players[k].id # "s1"

---------------------------------------------------------------------------
(* Room codes in lower case *)

\* the inputs that spell the code of a live room, in whatever case
LiveSpellings == {c \in CodeInputs : toUpperCase(c) \in LiveCodes}

\* C24: every intent that takes a room code resolves a live room's code written
\* in lower case to the same room, and gives the same result, as the code
\* written in upper case: the lookup of the game intents and of rematch
\* (getRoom), joinRoom, kick, startGame and reconnect.
CodeCaseIgnored ==
    \A c \in LiveSpellings :
        LET u == toUpperCase(c) IN
        /\ getRoom(rooms, c) = getRoom(rooms, u)
        /\ \A s \in Sockets, n \in Nicks :
              joinRoom(rooms, s, c, n) = joinRoom(rooms, s, u, n)
        /\ \A s \in Sockets, t \in Sockets :
              kickPlayer(rooms, c, s, t) = kickPlayer(rooms, u, s, t)
        /\ \A s \in Sockets, seed \in Seeds :
              startGame(rooms, c, s, seed) = startGame(rooms, u, s, seed)
        /\ \A s \in Sockets, o \in Sockets \cup {NoSocket}, n \in Nicks :
              reconnectPlayer(rooms, c, o, s, n) = reconnectPlayer(rooms, u, o, s, n)

---------------------------------------------------------------------------
(* Legal plays *)

\* the cards and colors isValidPlay is tabulated on: TableColors colors, the
\* numbers 0..TableValues, the three specials and the two wilds
TableColors == 3
TableValues == 1
TableDeck == Deck(TableColors, TableValues, 1)
TableCards == {TableDeck[k] : k \in 1..Len(TableDeck)}
TableColorSet == {COLORS[k] : k \in 1..TableColors}

\* the four ways a card can be played on top under currentColor
Playable(card, top, currentColor) ==
    \/ card.type \in {"wild", "wild_draw_four"}
    \/ card.color = currentColor
    \/ card.type = "number" /\ top.type = "number" /\ card.value = top.value
    \/ card.type # "number" /\ card.type = top.type

\* C25: isValidPlay(card, top, currentColor) is true exactly when the card is a
\* wild or wild_draw_four, or its color is currentColor, or card and top are
\* numbers of equal value, or card and top have the same non-number type, and
\* false for every other combination; it changes no state: the play of a card
\* it refuses is answered 'Invalid move.' and leaves the room as it was.
ValidPlayTable ==
    /\ \A card \in TableCards, top \in TableCards, currentColor \in TableColorSet :
          isValidPlay(card, top, currentColor) <=> Playable(card, top, currentColor)
    /\ \A i \in Running :
          LET room == rooms[i]
              cur == room.players[room.game.currentPlayerIndex + 1]
          IN \A cardIndex \in 0..(Len(cur.hand) - 1), seed \in Seeds :
                LET p == playCard(room, cur.id, cardIndex, "blue", seed) IN
                IF Playable(cur.hand[cardIndex + 1], topCard(room.game),
                            room.game.currentColor)
                THEN p.res.ok
                ELSE p.res = Err("Invalid move.") /\ p.room = room

\* C25 witness: a card that matches neither the color nor the top card has just
\* been refused
MismatchRefused ==
    /\ reply = Reply("game:playCard", Err("Invalid move."))
    /\ \E i \in Running :
          LET room == rooms[i]
              cur == room.players[room.game.currentPlayerIndex + 1]
          IN \E k \in 1..Len(cur.hand) :
                ~Playable(cur.hand[k], topCard(room.game), room.game.currentColor)

---------------------------------------------------------------------------
(* Seats: three players, plays, draws, timeouts and disconnects *)

SeatMoves == 4
SeatDisconnects == 2

NextSeats ==
    \/ RoomCreate("s1", "ann", "ABC234")
    \/ RoomJoin("s2", "ABC234", "bob") /\ reply'.ok
    \/ RoomJoin("s3", "ABC234", "ann") /\ reply'.ok
    \/ \E seed \in Seeds : GameStart("s1", "ABC234", seed) /\ reply'.ok
    \/ \E s \in CurrentIds, i \in CardIndexes, seed \in DrawSeeds(rooms) :
          GamePlayCard(s, "ABC234", i, "blue", seed) /\ reply'.ok
    \/ \E s \in CurrentIds, seed \in DrawSeeds(rooms) :
          GameDrawCard(s, "ABC234", seed) /\ reply'.ok
    \/ \E s \in SeatedInGame : Cardinality(closed) < SeatDisconnects /\ Disconnect(s)
    \/ \E c \in Codes, seed \in DrawSeeds(rooms) : TurnTimeout(c, seed)

SpecSeats == InitWith(SeatMoves) /\ [][NextSeats]_vars

\* a seat index of room
InRange(room, c) == c \in 0..(Len(room.players) - 1)

\* C26: in every reachable state in which a game exists, currentPlayerIndex is
\* a seat of the game and direction is +1 or -1; from any seat and in either
\* direction the step of a play (one seat or two), of a timeout and of a
\* disconnect of the current player lands on a seat again.
SeatInRange ==
    \A i \in Games :
        /\ InRange(rooms[i], rooms[i].game.currentPlayerIndex)
        /\ rooms[i].game.direction \in {1, -1}
        /\ \A c \in 0..(Len(rooms[i].players) - 1), d \in {1, -1} :
              LET room == Seating(rooms[i], c, d)
              IN /\ InRange(room, nextPlayerIndex(room, FALSE))
                 /\ InRange(room, nextPlayerIndex(room, TRUE))
                 /\ InRange(room, StepOne(room))

\* C26 witness: in a game of three running backwards the occupant of seat 0
\* has disconnected and the turn is with the last seat
WrappedBackwards ==
    /\ reply = Reply("disconnect", Ok)
    /\ Cardinality(closed) = 1
    /\ \E i \in Running :
          /\ Len(rooms[i].players) = 3
          /\ rooms[i].game.direction = -1
          /\ rooms[i].game.currentPlayerIndex = 2
          /\ ~rooms[i].players[1].isConnected

---------------------------------------------------------------------------
(* The turn clock left to itself: firings are not counted as moves *)

LiveMoves == 1

\* the callback of startTurnTimer, fired as often as the timer is armed
TurnFires(code, seed) ==
    /\ turnPending[code] > 0
    /\ LET i == RoomIndex(rooms, code)
           fired == [timers |-> [turnTimers EXCEPT ![code] =
                                    IF @ = "live" THEN "dead" ELSE @],
                     pending |-> [turnPending EXCEPT ![code] = @ - 1]]
       IN IF i = 0 \/ rooms[i].game = NULLGAME \/ rooms[i].game.phase # "game"
          THEN /\ turnTimers' = fired.timers
               /\ turnPending' = fired.pending
               /\ UNCHANGED rooms
          ELSE /\ rooms' = [rooms EXCEPT ![i] = timeoutTurn(rooms[i], seed)]
               /\ LET tt == startTurnTimer(fired, code)
                  IN turnTimers' = tt.timers /\ turnPending' = tt.pending
    /\ reply' = Reply("turnTimeout", Ok)
    /\ UNCHANGED <<closed, disconnectTimers, gracePending, rankings, budget>>

\* the timer of room ABC234 fires
ClockTick == \E seed \in DrawSeeds(rooms) : TurnFires("ABC234", seed)

NextLive ==
    \/ RoomCreate("s1", "ann", "ABC234")
    \/ RoomJoin("s2", "ABC234", "bob") /\ reply'.ok
    \/ RoomJoin("s3", "ABC234", "ann") /\ reply'.ok
    \/ GameStart("s1", "ABC234", 1) /\ reply'.ok
    \/ \E s \in CurrentIds, i \in CardIndexes, seed \in DrawSeeds(rooms) :
          GamePlayCard(s, "ABC234", i, "blue", seed) /\ reply'.ok
    \/ \E s \in CurrentIds, seed \in DrawSeeds(rooms) :
          GameDrawCard(s, "ABC234", seed) /\ reply'.ok
    \/ \E s \in SeatedInGame : Disconnect(s)
    \/ ClockTick

\* setTimeout: an armed timer fires after its delay
SpecLive == InitWith(LiveMoves) /\ [][NextLive]_vars /\ WF_vars(ClockTick)

\* room ABC234 is in phase game, the turn at seat c and the direction d
TurnAt(c, d) ==
    \E i \in Running :
        /\ rooms[i].game.currentPlayerIndex = c
        /\ rooms[i].game.direction = d

\* room ABC234 is in phase game, the turn at the seat after c in direction d
TurnAfter(c, d) ==
    \E i \in Running :
        /\ rooms[i].game.currentPlayerIndex = (c + d) % Len(rooms[i].players)
        /\ rooms[i].game.direction = d

\* C27: while the room stays in phase game and no player intent is accepted
\* (the count of moves left does not drop), the turn held by any seat passes to
\* the next seat in direction, whether its occupant is connected or not and
\* even when every player is disconnected.
TurnAlwaysPasses ==
    \A c \in 0..(MAX_PLAYERS - 1), d \in {1, -1}, b \in 0..LiveMoves :
        (TurnAt(c, d) /\ budget = b) ~> (TurnAfter(c, d) \/ budget < b)

\* C27 witness: the timer has fired in a game whose players are all
\* disconnected, and the turn is not with the seat the game started at
TurnPassedWithNobodyThere ==
    /\ reply = Reply("turnTimeout", Ok)
    /\ budget = LiveMoves
    /\ \E i \in Running :
          /\ \A k \in 1..Len(rooms[i].players) : ~rooms[i].players[k].isConnected
          /\ rooms[i].game.currentPlayerIndex # 0

---------------------------------------------------------------------------
(* Connection ids within a room *)

\* the records of room carry pairwise distinct ids
IdsDistinct(room) ==
    \A j \in 1..Len(room.players), k \in 1..Len(room.players) :
        j # k => room.players[j].id # room.players[k].id

\* C28: in every reachable state the ids of the player records of a room are
\* pairwise distinct, and they still are after a reconnect sent from any open
\* connection, seated in the room or not, with any previous id and nickname.
IdsPairwiseDistinct ==
    \A i \in 1..Len(rooms) :
        /\ IdsDistinct(rooms[i])
        /\ \A s \in Sockets \ closed, o \in Sockets \cup {NoSocket}, n \in Nicks :
              LET r == reconnectPlayer(rooms, rooms[i].code, o, s, n)
              IN \A j \in 1..Len(r.rooms) : IdsDistinct(r.rooms[j])

\* C29: a reconnect sent from any other open connection that names the current
\* id of a player marked connected leaves that player's id as it is, whatever
\* nickname it carries.
ConnectedSeatNotTaken ==
    \A i \in 1..Len(rooms) :
        \A k \in 1..Len(rooms[i].players) :
            rooms[i].players[k].isConnected =>
               \A s \in Sockets \ (closed \cup {rooms[i].players[k].id}), n \in Nicks \cup {""} :
                  LET r == reconnectPlayer(rooms, rooms[i].code, rooms[i].players[k].id, s, n)
                  IN r.rooms[i].players[k].id = rooms[i].players[k].id

---------------------------------------------------------------------------
(* The host *)

\* C30: in every reachable state the hostId of every room of the registry is
\* the id of one of the room's player records.
HostIsSeated ==
    \A i \in 1..Len(rooms) : rooms[i].hostId \in Ids(rooms[i])

---------------------------------------------------------------------------
(* Phase, game state and winner *)

\* the phase of room, its game state and the winner agree
Consistent(room) ==
    /\ room.game = NULLGAME <=> room.phase = "lobby"
    /\ room.game # NULLGAME => room.game.phase = room.phase
    /\ room.phase = "game" =>
          /\ room.game.winner = NULL
          /\ \A k \in 1..Len(room.players) : Len(room.players[k].hand) >= 1
    /\ room.phase = "results" =>
          /\ room.game.winner # NULL
          /\ \E k \in 1..Len(room.players) :
                /\ room.players[k].nickname = room.game.winner
                /\ room.players[k].hand = <<>>

\* C31: in every reachable state a room's game state is absent exactly when
\* its phase is lobby; when present its phase field is the room's phase; in
\* phase game there is no winner and every player holds at least one card; in
\* phase results the winner is set and names a player whose hand is empty.
PhaseGameWinnerConsistent ==
    \A i \in 1..Len(rooms) : Consistent(rooms[i])

\* C31 witness: a winning play has just put the room in phase results
WonAndConsistent ==
    /\ reply = Reply("game:playCard", Ok)
    /\ \E i \in 1..Len(rooms) :
          /\ rooms[i].phase = "results"
          /\ rooms[i].game.winner =
                rooms[i].players[rooms[i].game.currentPlayerIndex + 1].nickname

---------------------------------------------------------------------------
(* The color a wild is played with *)

ColorMoves == 3

\* values of chosenColor a client may send with game:playCard
ColorInputs == {"", "red", "blue", "wild", "purple"}

NextColor ==
    \/ RoomCreate("s1", "ann", "ABC234")
    \/ RoomJoin("s2", "ABC234", "bob") /\ reply'.ok
    \/ \E seed \in Seeds : GameStart("s1", "ABC234", seed) /\ reply'.ok
    \/ \E s \in CurrentIds, i \in CardIndexes, col \in ColorInputs, seed \in DrawSeeds(rooms) :
          GamePlayCard(s, "ABC234", i, col, seed)
    \/ \E s \in CurrentIds, seed \in DrawSeeds(rooms) :
          GameDrawCard(s, "ABC234", seed) /\ reply'.ok
    \/ \E c \in Codes, seed \in DrawSeeds(rooms) : TurnTimeout(c, seed)

SpecColor == InitWith(ColorMoves) /\ [][NextColor]_vars

\* C32: in every reachable state in which a game exists, currentColor is one
\* of red, blue, green and yellow, whatever chosenColor the clients have sent
\* with their plays.
CurrentColorIsADeckColor ==
    \A i \in Games : rooms[i].game.currentColor \in {"red", "blue", "green", "yellow"}

---------------------------------------------------------------------------
(* The turn after a draw *)

\* the step is an accepted game:drawCard in room i, which keeps the turn only
\* when a card was drawn and that card can be played, moves it one seat on
\* otherwise, and leaves the turn timer armed
DrawStep(i) ==
    LET room == rooms[i]
        after == rooms'[i]
        c == room.game.currentPlayerIndex
        hand == room.players[c + 1].hand
        handAfter == after.players[c + 1].hand
        drew == Len(handAfter) = Len(hand) + 1
    IN /\ IF drew /\ Playable(Last(handAfter), topCard(after.game), after.game.currentColor)
          THEN after.game.currentPlayerIndex = c
          ELSE after.game.currentPlayerIndex = (c + room.game.direction) % Len(room.players)
       /\ after.game.direction = room.game.direction
       /\ turnTimers'[room.code] = "live"
       /\ turnPending'[room.code] = 1

\* C33: an accepted drawCard by the current player keeps the turn with that
\* player only if a card was drawn and the drawn card is a legal play on the
\* top card and current color; otherwise (card not playable, or nothing could
\* be drawn) the turn advances exactly one seat in direction; the turn timer
\* is restarted in both cases.
DrawKeepsTurnOnlyOnPlayableDraw ==
    [][reply' = Reply("game:drawCard", Ok) =>
          \A i \in Running : i <= Len(rooms') /\ DrawStep(i)]_vars

---------------------------------------------------------------------------
(* After the win: intents and timers in phase results *)

ResultMoves == 4

\* room ABC234 is in phase results
Finished == \E i \in 1..Len(rooms) : rooms[i].phase = "results"

NextResults ==
    \/ RoomCreate("s1", "ann", "ABC234")
    \/ RoomJoin("s2", "ABC234", "bob") /\ reply'.ok
    \/ \E seed \in Seeds : GameStart("s1", "ABC234", seed) /\ reply'.ok
    \/ \E s \in CurrentIds, i \in CardIndexes, seed \in DrawSeeds(rooms) :
          GamePlayCard(s, "ABC234", i, "blue", seed) /\ reply'.ok
    \/ \E s \in Seated, i \in CardIndexes :
          Finished /\ GamePlayCard(s, "ABC234", i, "blue", 0)
    \/ \E s \in Seated : Finished /\ GameDrawCard(s, "ABC234", 0)
    \/ \E s \in Seated : Finished /\ GameCallClash(s, "ABC234")
    \/ \E s \in Seated, t \in Seated : Finished /\ GameAccuseClash(s, "ABC234", t, 0)
    \/ \E s \in Seated : Finished /\ GameStart(s, "ABC234", 0)
    \/ \E s \in Seated : Finished /\ Disconnect(s)
    \/ \E o \in Seated \cup {NoSocket}, n \in Nicks :
          Finished /\ "s4" \notin Seated /\ RoomReconnect("s4", "ABC234", o, n)
    \/ \E s \in Hosts : Finished /\ GameRematch(s, "ABC234") /\ reply'.ok
    \/ \E c \in Codes, seed \in DrawSeeds(rooms) : TurnTimeout(c, seed)
    \/ \E k \in Keys : GraceTimeout(k)

SpecResults == InitWith(ResultMoves) /\ [][NextResults]_vars

\* the step leaves the finished game of room i as it is
FrozenStep(i) ==
    LET room == rooms[i]
        after == rooms'[i]
    IN /\ i <= Len(rooms')
       /\ after.phase = "results"
       /\ after.game = room.game
       /\ Len(after.players) = Len(room.players)
       /\ \A k \in 1..Len(room.players) :
             /\ after.players[k].hand = room.players[k].hand
             /\ after.players[k].nickname = room.players[k].nickname
             /\ after.players[k].clashSafe = room.players[k].clashSafe
             /\ reply'.op \notin {"disconnect", "room:reconnect"} =>
                   after.players[k] = room.players[k]
       /\ reply'.op \in {"game:playCard", "game:drawCard", "game:callClash",
                         "game:accuseClash", "game:start"} => ~reply'.ok
       /\ turnPending'[room.code] = 0

\* C34: once a room is in phase results, no step but a rematch changes a
\* hand, the draw pile, the discard pile, currentPlayerIndex, direction,
\* currentColor or the winner: playCard, drawCard, callClash and accuseClash
\* are refused, no turn timer is left to fire, and a disconnect or a reconnect
\* changes only a player's id and isConnected.
ResultsAreFrozen ==
    [][\A i \in 1..Len(rooms) :
          rooms[i].phase = "results" /\ reply'.op # "game:rematch" => FrozenStep(i)]_vars

\* C34 witness: with moves left, a draw sent in a finished game has just been
\* refused, the winner holding no card
DrawRefusedAfterWin ==
    /\ reply = Reply("game:drawCard", Err("No active game."))
    /\ budget > 0
    /\ \E i \in 1..Len(rooms) :
          /\ rooms[i].phase = "results"
          /\ rooms[i].players[rooms[i].game.currentPlayerIndex + 1].hand = <<>>
=============================================================================
